---------------------------- MODULE Spec2Model ----------------------------
(***************************************************************************)
(* Playwright locator assistant: the content scripts (the recursive        *)
(* synthesizer with its verifier, and the full-ladder synthesizer), the    *)
(* popup's highlighter and the background page, as one state machine.      *)
(*                                                                         *)
(* Strings are sequences of tokens.  A token is one character ("a", " ",   *)
(* the double quote) or one word of the rendered syntax that the code      *)
(* writes or matches as a unit ("getByRole", "locator", "WARNING").  The   *)
(* JavaScript string operations used by the code (trim, includes, replace, *)
(* the regular expressions) are operators on such sequences.               *)
(***************************************************************************)
EXTENDS Integers, Sequences, FiniteSets, TLC

VARIABLES
    dom,              \* the document: node -> element record
    variant,          \* the content script loaded: "rec" or "full"
    phase,            \* what the last step of the session was
    target,           \* the element last handed to generateBestLocator
    framework,        \* the dialect last handed to generateBestLocator
    result,           \* what generateBestLocator returned (or that it threw)
    query,            \* the text last handed to the verifier
    verifier,         \* the verifier last run: "content" or "popup"
    verdict,          \* what the verifier returned (or that it threw)
    marked,           \* elements carrying data-playwright-verifier-highlight
    isPickingMode,    \* content script: armed flag
    currentFramework, \* content script: active dialect
    listeners,        \* content script: click listeners registered on document
    locatorDisplayDiv,\* content script: the result panel, or NoPanel
    panels,           \* result panels of the content script attached to the document
    bgActive,         \* background: isPickingModeActive[tab]
    toContent,        \* messages in flight to the content script
    toRuntime,        \* messages the content script sent to the extension
    last,             \* the last handler run, with the state it started from
    probe             \* the last function called on its own, with what it returned

vars == <<dom, variant, phase, target, framework, result, query, verifier,
          verdict, marked, isPickingMode, currentFramework, listeners,
          locatorDisplayDiv, panels, bgActive, toContent, toRuntime, last, probe>>

synthVars == <<phase, target, framework, result, query, verifier, verdict, marked>>
pickVars == <<isPickingMode, currentFramework, listeners, locatorDisplayDiv, panels,
              bgActive, toContent, toRuntime, last>>

---------------------------------------------------------------------------
(* Bounds of the model *)

\* number of elements below <body>
MaxNodes == 3

---------------------------------------------------------------------------
(* Strings *)

\* JavaScript null / undefined (an absent attribute, no role, no parent)
Null == <<"<null>">>

Truthy(s) == s # Null /\ s # <<>>

IsWs(t) == t \in {" ", "\n"}

\* the three quote characters; BACKTICK stands for the grave accent
QuoteChars == {"\"", "'", "BACKTICK"}

\* the characters a token stands for
TokLen(t) ==
    CASE t = "WARNING" -> 7
      [] t = "locator" -> 7
      [] t = "<80>" -> 80
      [] t = "<120>" -> 120
      [] OTHER -> 1

RECURSIVE StrLen(_)
StrLen(s) == IF s = <<>> THEN 0 ELSE TokLen(Head(s)) + StrLen(Tail(s))

RECURSIVE TrimLeft(_)
TrimLeft(s) == IF s # <<>> /\ IsWs(Head(s)) THEN TrimLeft(Tail(s)) ELSE s

RECURSIVE TrimRight(_)
TrimRight(s) ==
    IF s # <<>> /\ IsWs(s[Len(s)]) THEN TrimRight(SubSeq(s, 1, Len(s) - 1)) ELSE s

trim(s) == TrimRight(TrimLeft(s))

\* str.replace(/\s+/g, ' ')
RECURSIVE collapseWs(_)
collapseWs(s) ==
    IF s = <<>> THEN <<>>
    ELSE IF IsWs(Head(s)) THEN <<" ">> \o collapseWs(TrimLeft(s))
    ELSE <<Head(s)>> \o collapseWs(Tail(s))

includes(s, sub) ==
    \E i \in 1..(Len(s) - Len(sub) + 1) : SubSeq(s, i, i + Len(sub) - 1) = sub

startsWith(s, pre) == Len(s) >= Len(pre) /\ SubSeq(s, 1, Len(pre)) = pre

endsWith(s, suf) ==
    Len(s) >= Len(suf) /\ SubSeq(s, Len(s) - Len(suf) + 1, Len(s)) = suf

\* const escapeStr = (str) => str.replace(/"/g, '\\"')
RECURSIVE escapeStr(_)
escapeStr(s) ==
    IF s = <<>> THEN <<>>
    ELSE (IF Head(s) = "\"" THEN <<"\\", "\"">> ELSE <<Head(s)>>) \o escapeStr(Tail(s))

\* the tokens that cannot be part of a CSS identifier; every other token (a
\* letter, a word) can.  No value of the model holds a digit, so a digit only
\* ever stands in an :nth-of-type index
Punct == {" ", "\n", "\"", "'", "BACKTICK", "(", ")", ".", "#", ":", ",", "{", "}",
          "=", ">", "\\", "[", "]", "/", "!", "*", ":nth-of-type",
          "0", "1", "2", "3", "4", "5", "6", "7", "8", "9"}

IsIdentTok(t) == t \notin Punct

\* CSS.escape(str): a backslash before every character that is no identifier character
RECURSIVE cssEscape(_)
cssEscape(s) ==
    IF s = <<>> THEN <<>>
    ELSE (IF IsIdentTok(Head(s)) THEN <<Head(s)>> ELSE <<"\\", Head(s)>>)
         \o cssEscape(Tail(s))

\* arr.join(sep) of a sequence of strings
RECURSIVE join(_, _)
join(parts, sep) ==
    IF parts = <<>> THEN <<>>
    ELSE IF Len(parts) = 1 THEN parts[1]
    ELSE parts[1] \o sep \o join(Tail(parts), sep)

\* the elements of a set of numbers, in increasing order
RECURSIVE SortedSeq(_)
SortedSeq(S) ==
    IF S = {} THEN <<>>
    ELSE LET m == CHOOSE x \in S : \A y \in S : x <= y
         IN <<m>> \o SortedSeq(S \ {m})

\* arr.filter(Boolean) of a sequence of strings
RECURSIVE nonEmpty(_)
nonEmpty(parts) ==
    IF parts = <<>> THEN <<>>
    ELSE (IF parts[1] = <<>> THEN <<>> ELSE <<parts[1]>>) \o nonEmpty(Tail(parts))

\* a decimal number as text (the model's indices stay below 10)
Digit(k) == <<CASE k = 0 -> "0" [] k = 1 -> "1" [] k = 2 -> "2" [] k = 3 -> "3"
                [] k = 4 -> "4" [] k = 5 -> "5" [] k = 6 -> "6" [] k = 7 -> "7"
                [] k = 8 -> "8" [] OTHER -> "9">>

DigitValue(t) ==
    CASE t = "0" -> 0 [] t = "1" -> 1 [] t = "2" -> 2 [] t = "3" -> 3 [] t = "4" -> 4
      [] t = "5" -> 5 [] t = "6" -> 6 [] t = "7" -> 7 [] t = "8" -> 8 [] t = "9" -> 9
      [] OTHER -> -1

---------------------------------------------------------------------------
(* The document *)

Html == 0
Body == 1
NoNode == -1

Nodes == 0..(MaxNodes + 1)
Below == 2..(MaxNodes + 1)

Parent(n) == dom[n].parent

Children(n) == SortedSeq({c \in Nodes : dom[c].parent = n})

RECURSIVE Ancestors(_)
Ancestors(n) ==
    IF Parent(n) = NoNode THEN {} ELSE {Parent(n)} \cup Ancestors(Parent(n))

\* scope.querySelectorAll('*'): the descendants of an element
Descendants(n) == {d \in Nodes : n \in Ancestors(d)}

\* document.querySelectorAll('*')
AllElements == Nodes

\* the first element of a set in document order, or NoNode
firstOf(S) == IF S = {} THEN NoNode ELSE CHOOSE m \in S : \A k \in S : m <= k

\* el.offsetParent !== null
HasOffsetParent(n) == dom[n].offsetParent

\* node.textContent: the text of the element and of its descendants, in document order
RECURSIVE textContent(_)
textContent(n) ==
    LET kids == Children(n)
        parts == [i \in 1..Len(kids) |-> textContent(kids[i])]
    IN dom[n].text \o join(parts, <<>>)

\* the rendered pieces that hold some text
RECURSIVE filterSeqBy(_)
filterSeqBy(parts) ==
    IF Len(parts) = 0 THEN <<>>
    ELSE (IF parts[1].t # <<>> THEN <<parts[1]>> ELSE <<>>) \o filterSeqBy(Tail(parts))

\* tags the browser lays out as blocks: their rendered text stands on its own line
BlockTags == {"html", "body", "div", "p", "form", "ul", "li", "h1", "h2", "section"}

RECURSIVE glueRendered(_)
glueRendered(parts) ==
    IF Len(parts) = 0 THEN <<>>
    ELSE IF Len(parts) = 1 THEN parts[1].t
    ELSE parts[1].t
         \o (IF parts[1].blk \/ parts[2].blk THEN <<"\n">> ELSE <<>>)
         \o glueRendered(Tail(parts))

\* element.innerText: the rendered text; children that are not displayed are left
\* out and block children stand on lines of their own
RECURSIVE innerText(_)
innerText(n) ==
    LET kids == Children(n)
        own == [t |-> dom[n].text, blk |-> FALSE]
        parts == <<own>> \o [i \in 1..Len(kids) |->
                    [t |-> IF dom[kids[i]].displayed THEN innerText(kids[i]) ELSE <<>>,
                     blk |-> dom[kids[i]].tag \in BlockTags]]
        shown == filterSeqBy(parts)
    IN IF ~dom[n].displayed THEN textContent(n)
       ELSE glueRendered(shown)

---------------------------------------------------------------------------
(* Introspection *)

\* text.length < 120 in the recursive content script
NameCap == 120

\* textContent.length < 80 in the full-ladder content script
NameCapFull == 80

\* const roleMappings = {...}; "" where the table has no entry
roleMappings(tag) ==
    CASE tag \in {"a", "area"} -> "link"
      [] tag = "button" -> "button"
      [] tag \in {"h1", "h2", "h3", "h4", "h5", "h6"} -> "heading"
      [] tag = "img" -> "img"
      [] tag = "textarea" -> "textbox"
      [] tag = "select" -> "combobox"
      [] tag = "li" -> "listitem"
      [] tag \in {"ul", "ol"} -> "list"
      [] tag = "nav" -> "navigation"
      [] tag = "form" -> "form"
      [] tag = "dialog" -> "dialog"
      [] tag = "table" -> "table"
      [] tag = "tr" -> "row"
      [] tag = "td" -> "cell"
      [] tag = "th" -> "columnheader"
      [] tag \in {"thead", "tbody", "tfoot"} -> "rowgroup"
      [] tag \in {"fieldset", "optgroup", "details"} -> "group"
      [] tag = "option" -> "option"
      [] tag \in {"progress", "meter"} -> "progressbar"
      [] tag = "article" -> "article"
      [] tag = "aside" -> "complementary"
      [] tag = "footer" -> "contentinfo"
      [] tag = "header" -> "banner"
      [] tag = "main" -> "main"
      [] tag = "section" -> "region"
      [] tag = "summary" -> "button"
      [] OTHER -> ""

\* const inputTypeRoles = {...}; inputTypeRoles[type] || 'textbox'
inputTypeRoles(type) ==
    CASE type \in {<<"button">>, <<"submit">>, <<"reset">>} -> "button"
      [] type = <<"checkbox">> -> "checkbox"
      [] type = <<"radio">> -> "radio"
      [] type = <<"number">> -> "spinbutton"
      [] type = <<"range">> -> "slider"
      [] OTHER -> "textbox"

\* getImplicitRole of the recursive content script, on a tag and its attributes
roleOf(tag, type, explicitRole) ==
    IF Truthy(explicitRole) THEN explicitRole
    ELSE IF roleMappings(tag) # "" THEN <<roleMappings(tag)>>
    ELSE IF tag = "input" THEN <<inputTypeRoles(type)>>
    ELSE Null

getImplicitRole(n) == roleOf(dom[n].tag, dom[n].type, dom[n].role)

\* the switch of the full-ladder getImplicitRole; "" where it falls out of the switch
roleSwitchFull(tag, type) ==
    CASE tag = "button" -> "button"
      [] tag = "a" -> "link"
      [] tag = "img" -> "img"
      [] tag = "textarea" -> "textbox"
      [] tag = "select" -> "combobox"
      [] tag = "input" ->
            IF type \in {<<"button">>, <<"submit">>, <<"reset">>} THEN "button"
            ELSE IF type = <<"checkbox">> THEN "checkbox"
            ELSE IF type = <<"radio">> THEN "radio"
            ELSE IF type \in {<<"text">>, <<"email">>, <<"password">>, <<"search">>,
                              <<"tel">>, <<"url">>, <<"number">>, <<"date">>,
                              <<"range">>, <<"color">>} THEN "textbox"
            ELSE ""
      [] tag \in {"h1", "h2", "h3", "h4", "h5", "h6"} -> "heading"
      [] tag = "li" -> "listitem"
      [] tag \in {"ul", "ol"} -> "list"
      [] tag = "nav" -> "navigation"
      [] tag = "form" -> "form"
      [] tag = "dialog" -> "dialog"
      [] tag = "menu" -> "menu"
      [] tag = "menuitem" -> "menuitem"
      [] tag = "tab" -> "tab"
      [] tag = "table" -> "table"
      [] tag \in {"th", "td"} -> "cell"
      [] tag = "tr" -> "row"
      [] tag = "fieldset" -> "group"
      [] tag = "option" -> "option"
      [] tag \in {"meter", "progress"} -> "progressbar"
      [] tag = "article" -> "article"
      [] tag = "aside" -> "complementary"
      [] tag = "footer" -> "contentinfo"
      [] tag = "header" -> "banner"
      [] tag = "main" -> "main"
      [] tag = "section" -> "region"
      [] tag = "output" -> "status"
      [] tag = "summary" -> "button"
      [] tag = "datalist" -> "listbox"
      [] OTHER -> ""

roleOfFull(tag, type, explicitRole) ==
    IF Truthy(explicitRole) THEN explicitRole
    ELSE IF roleSwitchFull(tag, type) # "" THEN <<roleSwitchFull(tag, type)>>
    ELSE Null

getImplicitRoleFull(n) == roleOfFull(dom[n].tag, dom[n].type, dom[n].role)

\* document.querySelector('label[for="<id>"]'): the first label for that id
labelFor(id) == firstOf({m \in Nodes : dom[m].tag = "label" /\ dom[m].for = id})

\* a || b on strings
OrElse(a, b) == IF a # <<>> THEN a ELSE b

\* (label.innerText || label.textContent)
innerTextOrContent(n) == OrElse(innerText(n), textContent(n))

\* the precedence of getAccessibleName in the recursive content script, over the
\* element, the label for its id and its collapsed rendered text
accessibleNameOf(e, label, text) ==
    IF Truthy(e.ariaLabel) THEN trim(e.ariaLabel)
    ELSE IF Truthy(e.id) /\ label # NoNode THEN trim(innerTextOrContent(label))
    ELSE IF e.tag = "input" /\ e.type \in {<<"submit">>, <<"button">>, <<"reset">>}
            /\ Truthy(e.value)
         THEN trim(e.value)
    ELSE IF e.tag = "img" /\ Truthy(e.alt) THEN trim(e.alt)
    ELSE IF text # <<>> /\ StrLen(text) < NameCap THEN text
    ELSE IF Truthy(e.title) THEN trim(e.title)
    ELSE <<>>

\* getAccessibleName of the recursive content script
getAccessibleName(n) ==
    accessibleNameOf(dom[n], labelFor(dom[n].id), collapseWs(trim(innerText(n))))

\* the end of the first word of a string that starts with no white space
wordEnd(t) ==
    IF \E i \in 1..Len(t) : IsWs(t[i])
    THEN (CHOOSE i \in 1..Len(t) : IsWs(t[i]) /\ \A j \in 1..(i - 1) : ~IsWs(t[j])) - 1
    ELSE Len(t)

\* str.split(/\s+/).filter(Boolean): the words of a string
RECURSIVE splitWs(_)
splitAt(t, k) == <<SubSeq(t, 1, k)>> \o splitWs(SubSeq(t, k + 1, Len(t)))
splitTrimmed(t) == IF t = <<>> THEN <<>> ELSE splitAt(t, wordEnd(t))
splitWs(s) == splitTrimmed(TrimLeft(s))

\* document.getElementById(id): the first element with that id
getElementById(id) == firstOf({m \in Nodes : dom[m].id = id})

\* the text of a referenced element, '' when there is none
labelText(el) == IF el = NoNode THEN <<>> ELSE trim(innerTextOrContent(el))

\* ids.map(id => text of the element with that id, or '').filter(Boolean)
labelTextsOf(ids) == nonEmpty([i \in 1..Len(ids) |-> labelText(getElementById(ids[i]))])
labelTexts(attr) == labelTextsOf(splitWs(attr))

\* the child texts of cleanTextOf: script and style children are left out
RECURSIVE cleanTextOf(_)
cleanParts(kids) ==
    [i \in 1..Len(kids) |->
        IF dom[kids[i]].tag \in {"script", "style"} THEN <<>> ELSE cleanTextOf(kids[i])]

\* tempDiv.innerText || tempDiv.textContent of a detached copy without script/style:
\* a detached element is not rendered, so its innerText is its textContent
cleanTextOf(n) == dom[n].text \o join(cleanParts(Children(n)), <<>>)

\* the precedence of getAccessibleName in the full-ladder content script, over the
\* element, the texts its aria-labelledby names, the label for its id, its
\* trimmed text and its trimmed text without script and style
accessibleNameFullOf(e, labelled, label, textContentTrimmed, cleanText) ==
    IF Truthy(e.ariaLabel) THEN trim(e.ariaLabel)
    ELSE IF Truthy(e.labelledby) /\ Len(labelled) > 0 THEN trim(join(labelled, <<" ">>))
    ELSE IF Truthy(e.id) /\ label # NoNode THEN trim(innerTextOrContent(label))
    ELSE IF e.tag = "input" /\ e.type \in {<<"submit">>, <<"reset">>, <<"button">>}
            /\ Truthy(e.value)
         THEN trim(e.value)
    ELSE IF ((e.tag = "input" /\ e.type \in {<<"text">>, <<"email">>, <<"password">>,
                  <<"search">>, <<"tel">>, <<"url">>, <<"number">>})
             \/ e.tag = "textarea") /\ Truthy(e.value)
         THEN trim(e.value)
    ELSE IF e.tag = "img" /\ Truthy(e.alt) THEN trim(e.alt)
    ELSE IF e.offsetParent /\ ~e.hidden
            /\ Len(textContentTrimmed) > 0 /\ StrLen(textContentTrimmed) < NameCapFull
            /\ Len(cleanText) > 0 /\ StrLen(cleanText) < NameCapFull
         THEN cleanText
    ELSE IF Truthy(e.title) /\ StrLen(e.title) < NameCapFull THEN trim(e.title)
    ELSE <<>>

\* getAccessibleName of the full-ladder content script
getAccessibleNameFull(n) ==
    accessibleNameFullOf(dom[n], labelTexts(dom[n].labelledby), labelFor(dom[n].id),
                         trim(innerTextOrContent(n)), trim(cleanTextOf(n)))

---------------------------------------------------------------------------
(* The host's selector engine: querySelectorAll, matches, on the selectors   *)
(* the code builds (type, class, id, :nth-of-type, child and descendant      *)
(* combinators).  Any other text is a SyntaxError.                           *)

\* an identifier at the head of s, unescaped, and what follows it
RECURSIVE readIdent(_)
consIdent(tok, r) == [val |-> <<tok>> \o r.val, rest |-> r.rest]
readIdent(s) ==
    IF s = <<>> THEN [val |-> <<>>, rest |-> s]
    ELSE IF Head(s) = "\\" /\ Len(s) >= 2 THEN consIdent(s[2], readIdent(SubSeq(s, 3, Len(s))))
    ELSE IF IsIdentTok(Head(s)) THEN consIdent(Head(s), readIdent(Tail(s)))
    ELSE [val |-> <<>>, rest |-> s]

EmptyCompound == [tag |-> <<>>, classes |-> {}, ids |-> {}, nth |-> {}, any |-> FALSE]

\* the class, id and :nth-of-type parts of a compound selector
RECURSIVE readSimples(_, _)
readClass(s, acc, id) ==
    IF id.val = <<>> THEN [ok |-> FALSE, comp |-> acc, rest |-> s]
    ELSE readSimples(id.rest, [acc EXCEPT !.classes = @ \cup {id.val}, !.any = TRUE])
readId(s, acc, id) ==
    IF id.val = <<>> THEN [ok |-> FALSE, comp |-> acc, rest |-> s]
    ELSE readSimples(id.rest, [acc EXCEPT !.ids = @ \cup {id.val}, !.any = TRUE])
readSimples(s, acc) ==
    IF s = <<>> THEN [ok |-> TRUE, comp |-> acc, rest |-> s]
    ELSE IF Head(s) = "." THEN readClass(s, acc, readIdent(Tail(s)))
    ELSE IF Head(s) = "#" THEN readId(s, acc, readIdent(Tail(s)))
    ELSE IF Head(s) = ":nth-of-type"
         THEN IF Len(s) >= 4 /\ s[2] = "(" /\ DigitValue(s[3]) >= 0 /\ s[4] = ")"
              THEN readSimples(SubSeq(s, 5, Len(s)),
                        [acc EXCEPT !.nth = @ \cup {DigitValue(s[3])}, !.any = TRUE])
              ELSE [ok |-> FALSE, comp |-> acc, rest |-> s]
    ELSE [ok |-> TRUE, comp |-> acc, rest |-> s]

\* one compound selector: an optional type (or *) and its parts
compoundOf(r) == [ok |-> r.ok /\ r.comp.any, comp |-> r.comp, rest |-> r.rest]
typedCompound(s, ty) ==
    IF ty.val # <<>>
    THEN compoundOf(readSimples(ty.rest, [EmptyCompound EXCEPT !.tag = ty.val, !.any = TRUE]))
    ELSE compoundOf(readSimples(s, EmptyCompound))
readCompound(s) ==
    IF s # <<>> /\ Head(s) = "*"
    THEN compoundOf(readSimples(Tail(s), [EmptyCompound EXCEPT !.any = TRUE]))
    ELSE typedCompound(s, readIdent(s))

\* a complex selector: compounds separated by > (child) or white space (descendant)
RECURSIVE readComplex(_)
NoSelector == [ok |-> FALSE, comps |-> <<>>, combs |-> <<>>]
consComplex(comp, comb, next) ==
    [ok |-> next.ok, comps |-> <<comp>> \o next.comps, combs |-> <<comb>> \o next.combs]
afterCompound(c, afterWs) ==
    IF afterWs # <<>> /\ Head(afterWs) = ">"
    THEN consComplex(c.comp, "child", readComplex(TrimLeft(Tail(afterWs))))
    ELSE IF afterWs = c.rest THEN NoSelector
    ELSE consComplex(c.comp, "descendant", readComplex(afterWs))
complexFrom(c) ==
    IF ~c.ok THEN NoSelector
    ELSE IF c.rest = <<>> THEN [ok |-> TRUE, comps |-> <<c.comp>>, combs |-> <<>>]
    ELSE afterCompound(c, TrimLeft(c.rest))
readComplex(s) == complexFrom(readCompound(s))

parseSelector(text) == readComplex(trim(text))

\* the position of an element among the siblings of its type, from 1
nthOfType(n) ==
    1 + Cardinality({m \in Nodes : dom[m].parent = dom[n].parent
                                   /\ dom[m].tag = dom[n].tag /\ m < n})

classSet(n) == {dom[n].classList[i] : i \in 1..Len(dom[n].classList)}

matchesCompound(n, c) ==
    /\ c.tag = <<>> \/ c.tag = <<dom[n].tag>>
    /\ c.classes \subseteq classSet(n)
    /\ \A id \in c.ids : dom[n].id = id
    /\ \A k \in c.nth : nthOfType(n) = k

RECURSIVE matchesUpTo(_, _, _)
matchesUpTo(n, sel, k) ==
    /\ matchesCompound(n, sel.comps[k])
    /\ \/ k = 1
       \/ /\ sel.combs[k - 1] = "child"
          /\ Parent(n) # NoNode
          /\ matchesUpTo(Parent(n), sel, k - 1)
       \/ /\ sel.combs[k - 1] = "descendant"
          /\ \E a \in Ancestors(n) : matchesUpTo(a, sel, k - 1)

\* element.matches(selector), for a selector that parses
matchesSelector(n, sel) == matchesUpTo(n, sel, Len(sel.comps))

\* the elements of a pool that a parsed selector matches; thr: SyntaxError
selectIn(pool, sel) ==
    IF ~sel.ok THEN [thr |-> TRUE, nodes |-> {}]
    ELSE [thr |-> FALSE, nodes |-> {n \in pool : matchesSelector(n, sel)}]

\* scope.querySelectorAll(text): scope is an element, or NoNode for the document.
\* thr: the engine raised a SyntaxError
querySelectorAll(scope, text) ==
    selectIn(IF scope = NoNode THEN Nodes ELSE Descendants(scope), parseSelector(text))

---------------------------------------------------------------------------
(* Structural selectors *)

\* cls && !cls.includes(':') && !cls.includes('[') && cls.length > 2
isStableClass(cls) ==
    cls # <<>> /\ ~includes(cls, <<":">>) /\ ~includes(cls, <<"[">>) /\ StrLen(cls) > 2

RECURSIVE stableClasses(_)
stableClasses(classes) ==
    IF classes = <<>> THEN <<>>
    ELSE (IF isStableClass(Head(classes)) THEN <<Head(classes)>> ELSE <<>>)
         \o stableClasses(Tail(classes))

\* the position of x in a sequence from 0, or -1: arr.indexOf(x)
indexOf(seq, x) ==
    IF \E i \in 1..Len(seq) : seq[i] = x
    THEN (CHOOSE i \in 1..Len(seq) : seq[i] = x /\ \A j \in 1..(i - 1) : seq[j] # x) - 1
    ELSE -1

RECURSIVE filterSeq(_, _)
filterSeq(seq, S) ==
    IF seq = <<>> THEN <<>>
    ELSE (IF Head(seq) \in S THEN <<Head(seq)>> ELSE <<>>) \o filterSeq(Tail(seq), S)

\* selector += `:nth-of-type(${index})`
nthSuffix(selector, index) == selector \o <<":nth-of-type", "(">> \o Digit(index) \o <<")">>

\* tag and, when there are stable classes, '.' + stableClasses.join('.')
tagWithStable(tag, stable) ==
    <<tag>> \o (IF Len(stable) > 0 THEN <<".">> \o join(stable, <<".">>) ELSE <<>>)

\* the selector with the index of the element among the siblings that match it,
\* when several do
relativeIndexed(element, selector, same) ==
    IF Len(same) > 1
    THEN [thr |-> FALSE, text |-> nthSuffix(selector, indexOf(same, element) + 1)]
    ELSE [thr |-> FALSE, text |-> selector]

\* siblings.filter(sibling => sibling.matches(selector)): raises on the first
\* sibling when the selector does not parse
relativeAmong(element, siblings, selector, sel) ==
    IF Len(siblings) > 0 /\ ~sel.ok THEN [thr |-> TRUE, text |-> <<>>]
    ELSE relativeIndexed(element, selector,
                         filterSeq(siblings, {m \in Nodes : matchesSelector(m, sel)}))

relativeWith(element, siblings, selector) ==
    relativeAmong(element, siblings, selector, parseSelector(selector))

\* getRelativeCSS(element, parent); parent may be NoNode (null), and then
\* parent.children raises a TypeError
getRelativeCSS(element, parent) ==
    IF parent = NoNode THEN [thr |-> TRUE, text |-> <<>>]
    ELSE relativeWith(element, Children(parent),
                      tagWithStable(dom[element].tag, stableClasses(dom[element].classList)))

onlyNode(r, targetElement) == ~r.thr /\ r.nodes = {targetElement}

\* isSelectorUnique(selector, targetElement): an invalid selector counts as not unique
isSelectorUnique(selector, targetElement) ==
    onlyNode(querySelectorAll(NoNode, selector), targetElement)

\* tag + classes.map(cls => `.${CSS.escape(cls)}`).join('')
RECURSIVE classSuffix(_)
classSuffix(classes) ==
    IF classes = <<>> THEN <<>>
    ELSE (IF Head(classes) = <<>> THEN <<>> ELSE <<".">> \o cssEscape(Head(classes)))
         \o classSuffix(Tail(classes))

tagAndClasses(n) == <<dom[n].tag>> \o classSuffix(dom[n].classList)

idSelector(n) == <<"#">> \o cssEscape(dom[n].id)

\* the children of current.parentNode: the document's only child is <html>
siblingsOf(n) == IF Parent(n) = NoNode THEN <<n>> ELSE Children(Parent(n))

segmentIndexed(current, selector, same) ==
    IF Len(same) > 1 /\ indexOf(same, current) + 1 > 0
    THEN nthSuffix(selector, indexOf(same, current) + 1)
    ELSE selector

segmentAmong(current, selector, sibs) ==
    segmentIndexed(current, selector,
                   filterSeq(sibs, {m \in Nodes : tagAndClasses(m) = selector}))

\* one level of generateCSSPath: tag, classes and an :nth-of-type index when
\* several siblings carry the same tag and classes
pathSegment(current) == segmentAmong(current, tagAndClasses(current), siblingsOf(current))

\* the while loop of generateCSSPath: the segments from `current` upwards and the
\* element the loop stopped at
RECURSIVE cssPathLoop(_)
extendPath(up, segment) == [path |-> up.path \o <<segment>>, stop |-> up.stop]
cssPathLoop(current) ==
    IF current = NoNode \/ current = Body THEN [path |-> <<>>, stop |-> current]
    ELSE IF Truthy(dom[current].id) /\ isSelectorUnique(idSelector(current), current)
         THEN [path |-> <<idSelector(current)>>, stop |-> current]
    ELSE extendPath(cssPathLoop(Parent(current)), pathSegment(current))

\* if (current === document.body && path[0] !== 'body') path.unshift('body')
withBody(loop) ==
    IF loop.stop = Body /\ Len(loop.path) > 0 /\ loop.path[1] # <<"body">>
    THEN << <<"body">> >> \o loop.path
    ELSE loop.path

\* generateCSSPath(element)
generateCSSPath(element) ==
    IF Truthy(dom[element].id)
       /\ Cardinality(querySelectorAll(NoNode, idSelector(element)).nodes) = 1
    THEN idSelector(element)
    ELSE join(withBody(cssPathLoop(element)), <<" ", ">", " ">>)

---------------------------------------------------------------------------
(* Rendering *)

Frameworks == {"pytest", "js"}

\* options of a locator call: name is Null when the key is absent; exact says
\* that the key `exact` is present, and it is only ever present as true
NoOpts == [name |-> Null, exact |-> FALSE]
NameExact(nm) == [name |-> nm, exact |-> TRUE]
NameOnly(nm) == [name |-> nm, exact |-> FALSE]
ExactOnly == [name |-> Null, exact |-> TRUE]

\* method.replace(/([A-Z])/g, '_$1').toLowerCase()
snakeCase(method) ==
    CASE method = "getByTestId" -> "get_by_test_id"
      [] method = "getByRole" -> "get_by_role"
      [] method = "getByText" -> "get_by_text"
      [] method = "getByLabel" -> "get_by_label"
      [] method = "getByPlaceholder" -> "get_by_placeholder"
      [] method = "getByAltText" -> "get_by_alt_text"
      [] method = "getByTitle" -> "get_by_title"
      [] OTHER -> method

methodName(fw, method) == IF fw = "pytest" THEN snakeCase(method) ELSE method

quoted(v) == <<"\"">> \o escapeStr(v) \o <<"\"">>

\* a rendering that leaves the name option out
nameEntryDropped(fw, o) == <<>>

\* Object.entries(options).map(...): the entries of the options, rendered; the
\* two content scripts differ in how pytest writes true
nameEntry(fw, o) ==
    IF o.name = Null THEN <<>>
    ELSE IF fw = "pytest" THEN << <<"name", "=">> \o quoted(o.name) >>
    ELSE << <<"name", ":", " ">> \o quoted(o.name) >>

exactEntry(fw, o, pyTrue) ==
    IF ~o.exact THEN <<>>
    ELSE IF fw = "pytest" THEN << <<"exact", "=", pyTrue>> >>
    ELSE << <<"exact", ":", " ", "true">> >>

braced(fw, entries) ==
    IF fw = "pytest" THEN entries ELSE <<"{", " ">> \o entries \o <<" ", "}">>

\* the options text of the recursive content script: True in pytest, braces in
\* JavaScript
optionsStr(fw, o) ==
    braced(fw, join(nameEntry(fw, o) \o exactEntry(fw, o, "True"), <<",", " ">>))

\* formatLocator of the recursive content script
formatLocator(fw, method, value, o) ==
    IF o = NoOpts
    THEN <<"page", ".", methodName(fw, method), "(">> \o quoted(value) \o <<")">>
    ELSE <<"page", ".", methodName(fw, method), "(">> \o quoted(value)
         \o <<",", " ">> \o optionsStr(fw, o) \o <<")">>

\* the options text of the full-ladder formatLocator: exact=${v} in pytest, no
\* braces in JavaScript
optionsStrFull(fw, o) ==
    join(nameEntry(fw, o) \o exactEntry(fw, o, "true"), <<",", " ">>)

\* page.<method>(<value>, <options>), or without options when their text is empty
callText(name, value, opts) ==
    IF opts # <<>>
    THEN <<"page", ".", name, "(">> \o quoted(value) \o <<",", " ">> \o opts \o <<")">>
    ELSE <<"page", ".", name, "(">> \o quoted(value) \o <<")">>

\* formatLocator of the full-ladder content script
formatLocatorFull(fw, method, value, o) ==
    callText(methodName(fw, method), value, optionsStrFull(fw, o))

\* str.replace(/^page\./, ''), str.replace('page.', '') on a text that starts with it
stripPage(text) ==
    IF startsWith(text, <<"page", ".">>) THEN SubSeq(text, 3, Len(text)) ELSE text

commentMark(fw) == IF fw = "pytest" THEN "#" ELSE "//"

\* "<mark> WARNING: CSS selector fallback. Consider adding a data-testid."
cssFallbackComment(fw) == <<commentMark(fw), " ", "WARNING", ":", " ", "CSS selector fallback">>

\* "<mark> WARNING: This getByText locator might not be unique. ..."
textWarningComment(fw) == <<commentMark(fw), " ", "WARNING", ":", " ", "might not be unique">>

\* "<mark> WARNING: Generic CSS selector. ..."
genericCssComment(fw) == <<commentMark(fw), " ", "WARNING", ":", " ", "Generic CSS selector">>

\* "<mark> CRITICAL WARNING: Very generic locator (tag name only). ..."
criticalComment(fw) ==
    <<commentMark(fw), " ", "CRITICAL", " ", "WARNING", ":", " ", "Very generic locator">>

\* what a synthesizer gives back: the text it returned, or that it raised; for a
\* chained text also the ancestor the loop stopped at and the child segment it built
NoSeg == [kind |-> "none", value |-> <<>>, name |-> Null]
Seg(kind, value, name) == [kind |-> kind, value |-> value, name |-> name]
Returned(text) == [thr |-> FALSE, text |-> text, anc |-> NoNode, seg |-> NoSeg]
Thrown == [thr |-> TRUE, text |-> <<>>, anc |-> NoNode, seg |-> NoSeg]
Chained(r, anc, seg) == [thr |-> r.thr, text |-> r.text, anc |-> anc, seg |-> seg]

---------------------------------------------------------------------------
(* Uniqueness checks *)

\* element.getAttribute('data-testid') || getAttribute('data-qa') || getAttribute('data-test')
testIdOf(n) ==
    IF Truthy(dom[n].testid) THEN dom[n].testid
    ELSE IF Truthy(dom[n].qa) THEN dom[n].qa
    ELSE dom[n].dtest

\* isLocatorUniqueInScope(locator, value, targetElement, scope); scope NoNode is the document
isLocatorUniqueInScope(locator, value, targetElement, scope) ==
    LET pool == IF scope = NoNode THEN AllElements ELSE Descendants(scope)
        elements == {el \in pool : getImplicitRole(el) = value}
    IN locator = "getByRole" /\ elements = {targetElement}

\* el.getAttribute('role') || getImplicitRole(el) in the full-ladder content script
actualRoleFull(n) == IF Truthy(dom[n].role) THEN dom[n].role ELSE getImplicitRoleFull(n)

\* exactMatch ? text === value : text.includes(value)
textMatches(text, value, exactMatch) ==
    IF exactMatch THEN text = value ELSE includes(text, value)

\* the filter of validatePlaywrightLocatorUniqueness over an element, its role,
\* its accessible name and its test id
candidateWith(e, method, value, o, role, name, testId) ==
    /\ e.offsetParent
    /\ ~e.hidden
    /\ e.tag \notin {"script", "style"}
    /\ CASE method = "getByRole" ->
              /\ role = value
              /\ o.name = Null \/ textMatches(name, o.name, o.exact)
         [] method \in {"getByText", "getByLabel"} ->
              /\ name # <<>>
              /\ textMatches(name, value, o.exact)
         [] method = "getByPlaceholder" ->
              /\ Truthy(e.placeholder)
              /\ textMatches(e.placeholder, value, o.exact)
         [] method = "getByAltText" ->
              /\ e.tag = "img"
              /\ Truthy(e.alt)
              /\ textMatches(e.alt, value, o.exact)
         [] method = "getByTitle" ->
              /\ Truthy(e.title)
              /\ textMatches(e.title, value, o.exact)
         [] method = "getByTestId" -> testId = value
         [] OTHER -> FALSE

isCandidateFull(el, method, value, o) ==
    candidateWith(dom[el], method, value, o, actualRoleFull(el),
                  getAccessibleNameFull(el), testIdOf(el))

\* validatePlaywrightLocatorUniqueness(targetElement, method, value, options)
validatePlaywrightLocatorUniqueness(targetElement, method, value, o) ==
    {el \in AllElements : isCandidateFull(el, method, value, o)} = {targetElement}

---------------------------------------------------------------------------
(* The recursive synthesizer *)

\* for (let i = 0; i < 4 && ...)
ChainDepth == 4

\* for (let i = 0; i < 3 && ...)
ChainDepthFull == 3

\* parentLocator && !parentLocator.includes('locator(') && !parentLocator.includes('WARNING')
isStableParentLocator(parentLocator) ==
    /\ parentLocator # <<>>
    /\ ~includes(parentLocator, <<"locator", "(">>)
    /\ ~includes(parentLocator, <<"WARNING">>)

\* `page.locator("${escapeStr(css)}")` without the leading page.
locatorCall(css) == <<"locator", "(">> \o quoted(css) \o <<")">>

RECURSIVE generateBestLocator(_, _)
RECURSIVE chainLoop(_, _, _, _)

\* the relative selector picks one element below the ancestor: chain it; else go
\* on with the next ancestor
chainFound(element, fw, parentElement, i, parentText, css, found) ==
    IF found.thr THEN Thrown
    ELSE IF Cardinality(found.nodes) = 1
    THEN Chained(Returned(parentText \o <<".">> \o locatorCall(css)),
                 parentElement, Seg("locator", css, Null))
    ELSE chainLoop(element, fw, Parent(parentElement), i + 1)

chainCss(element, fw, parentElement, i, parentText, relativeCSS) ==
    IF relativeCSS.thr THEN Thrown
    ELSE chainFound(element, fw, parentElement, i, parentText, relativeCSS.text,
                    querySelectorAll(parentElement, relativeCSS.text))

\* the child of a stable ancestor: its role when unique below the ancestor, else
\* its relative selector
chainChild(element, fw, parentElement, i, parentText, role) ==
    IF Truthy(role) /\ isLocatorUniqueInScope("getByRole", role, element, parentElement)
    THEN Chained(Returned(parentText \o <<".">>
                          \o stripPage(formatLocator(fw, "getByRole", role, NoOpts))),
                 parentElement, Seg("getByRole", role, Null))
    ELSE chainCss(element, fw, parentElement, i, parentText,
                  getRelativeCSS(element, parentElement))

\* a chaining loop that passes over the nearest ancestor
chainStepSkipping(element, fw, parentElement, i, parentLocator) ==
    IF i = 0 THEN chainLoop(element, fw, Parent(parentElement), i + 1)
    ELSE IF parentLocator.thr THEN Thrown
    ELSE IF isStableParentLocator(parentLocator.text)
    THEN chainChild(element, fw, parentElement, i, parentLocator.text,
                    getImplicitRole(element))
    ELSE chainLoop(element, fw, Parent(parentElement), i + 1)

\* one ancestor of the chaining loop, given the locator synthesized for it
chainStep(element, fw, parentElement, i, parentLocator) ==
    IF parentLocator.thr THEN Thrown
    ELSE IF isStableParentLocator(parentLocator.text)
    THEN chainChild(element, fw, parentElement, i, parentLocator.text,
                    getImplicitRole(element))
    ELSE chainLoop(element, fw, Parent(parentElement), i + 1)

\* the CSS fallback after the loop
cssFallback(fw, cssSelector) ==
    IF cssSelector.thr THEN Thrown
    ELSE Returned(<<"page", ".">> \o locatorCall(cssSelector.text)
                  \o <<" ">> \o cssFallbackComment(fw))

\* the chaining loop from the ancestor parentElement on, then the CSS fallback
\* relative to element.parentElement
chainLoop(element, fw, parentElement, i) ==
    IF i < ChainDepth /\ parentElement # NoNode /\ dom[parentElement].tag # "body"
    THEN chainStep(element, fw, parentElement, i, generateBestLocator(parentElement, fw))
    ELSE cssFallback(fw, getRelativeCSS(element, Parent(element)))

\* the tiers of the recursive content script over the test id, the role and the
\* accessible name of the element
ladder(element, fw, testId, role, accName) ==
    IF Truthy(testId) THEN Returned(formatLocator(fw, "getByTestId", testId, NoOpts))
    ELSE IF Truthy(role) /\ Truthy(accName)
         THEN Returned(formatLocator(fw, "getByRole", role, NameExact(accName)))
    ELSE IF Truthy(dom[element].placeholder)
         THEN Returned(formatLocator(fw, "getByPlaceholder", dom[element].placeholder,
                                     ExactOnly))
    ELSE IF Truthy(dom[element].alt)
         THEN Returned(formatLocator(fw, "getByAltText", dom[element].alt, ExactOnly))
    ELSE IF Truthy(accName)
         THEN Returned(formatLocator(fw, "getByText", accName, ExactOnly))
    ELSE IF Truthy(role) /\ isLocatorUniqueInScope("getByRole", role, element, NoNode)
         THEN Returned(formatLocator(fw, "getByRole", role, NoOpts))
    ELSE chainLoop(element, fw, Parent(element), 0)

\* generateBestLocator(element, framework) of the recursive content script
generateBestLocator(element, fw) ==
    ladder(element, fw, testIdOf(element), getImplicitRole(element),
           getAccessibleName(element))

---------------------------------------------------------------------------
(* The full-ladder synthesizer *)

JsMethods == {"getByTestId", "getByRole", "getByText", "getByLabel",
              "getByPlaceholder", "getByAltText", "getByTitle"}

\* cleanChild.match(/^(getBy[A-Z][a-zA-Z]*)\("(.+?)"(?:, (.+))?\)$/): the child is a
\* getBy call written in camel case on one line
byMethodMatch(cleanChild) ==
    /\ Len(cleanChild) >= 6
    /\ cleanChild[1] \in JsMethods
    /\ cleanChild[2] = "("
    /\ cleanChild[3] = "\""
    /\ cleanChild[Len(cleanChild)] = ")"
    /\ ~includes(cleanChild, <<"\n">>)
    /\ \E k \in 5..(Len(cleanChild) - 1) :
          /\ cleanChild[k] = "\""
          /\ \/ k + 1 = Len(cleanChild)
             \/ /\ k + 4 <= Len(cleanChild)
                /\ cleanChild[k + 1] = ","
                /\ cleanChild[k + 2] = " "

\* formatChainedLocator over the child without its page. prefix: when the child
\* matches byMethodMatch the function reads formattedValue, which is not
\* declared in its scope (or JSON.parse rejects the options first), and raises
chainedWith(parentPart, cleanChild) ==
    IF startsWith(cleanChild, <<"locator", "(", "\"">>) /\ endsWith(cleanChild, <<"\"", ")">>)
    THEN Returned(parentPart \o <<".">> \o cleanChild)
    ELSE IF byMethodMatch(cleanChild) THEN Thrown
    ELSE Returned(parentPart \o <<".">> \o cleanChild)

\* formatChainedLocator(parentLocatorPart, childLocatorPart)
formatChainedLocator(parentPart, childPart) ==
    chainedWith(parentPart, stripPage(childPart))

\* element.placeholder: the property exists on input and textarea only
placeholderProp(n) ==
    IF dom[n].tag \in {"input", "textarea"} /\ dom[n].placeholder # Null
    THEN dom[n].placeholder ELSE <<>>

\* element.title: the attribute, or ''
titleProp(n) == IF dom[n].title # Null THEN dom[n].title ELSE <<>>

\* the stable locator of an ancestor over its test id, role and accessible
\* name: test id, unique id, role with name, text
parentCandidateWith(fw, currentParent, parentTestId, parentRole, parentName) ==
    IF Truthy(parentTestId)
       /\ validatePlaywrightLocatorUniqueness(currentParent, "getByTestId", parentTestId, NoOpts)
    THEN formatLocatorFull(fw, "getByTestId", parentTestId, NoOpts)
    ELSE IF Truthy(dom[currentParent].id)
            /\ isSelectorUnique(idSelector(currentParent), currentParent)
    THEN <<"page", ".", "locator", "(", "\"">> \o idSelector(currentParent) \o <<"\"", ")">>
    ELSE IF Truthy(parentRole) /\ Truthy(parentName)
            /\ validatePlaywrightLocatorUniqueness(currentParent, "getByRole", parentRole,
                                                   NameExact(parentName))
    THEN formatLocatorFull(fw, "getByRole", parentRole, NameExact(parentName))
    ELSE IF Truthy(parentRole) /\ Truthy(parentName)
            /\ validatePlaywrightLocatorUniqueness(currentParent, "getByRole", parentRole,
                                                   NameOnly(parentName))
    THEN formatLocatorFull(fw, "getByRole", parentRole, NameOnly(parentName))
    ELSE IF Truthy(parentName) /\ StrLen(parentName) < NameCapFull
            /\ validatePlaywrightLocatorUniqueness(currentParent, "getByText", parentName,
                                                   ExactOnly)
    THEN formatLocatorFull(fw, "getByText", parentName, ExactOnly)
    ELSE Null

parentLocatorCandidate(fw, currentParent) ==
    parentCandidateWith(fw, currentParent, testIdOf(currentParent),
                        actualRoleFull(currentParent), getAccessibleNameFull(currentParent))

\* the child's selector when its id does not pick it: tag and classes, or the
\* nth-of-type among the children of the same tag when siblings share them
simpleCssAmong(element, withClasses, sameSelector, indexInSiblings) ==
    IF Len(sameSelector) > 1 /\ indexInSiblings > 0
    THEN <<dom[element].tag, ":nth-of-type", "(">> \o Digit(indexInSiblings) \o <<")">>
    ELSE withClasses

simpleCssOf(element, kids, withClasses) ==
    simpleCssAmong(element, withClasses,
        filterSeq(kids, {m \in Nodes : tagAndClasses(m) = withClasses}),
        indexOf(filterSeq(kids, {m \in Nodes : dom[m].tag = dom[element].tag}), element) + 1)

\* the child's CSS selector relative to an ancestor (priority 4 of the child part)
simpleChildCss(element, currentParent) ==
    IF Truthy(dom[element].id)
       /\ firstOf({c \in Nodes : Parent(c) = currentParent
                                  /\ dom[c].id = dom[element].id}) = element
    THEN idSelector(element)
    ELSE simpleCssOf(element, Children(currentParent), tagAndClasses(element))

\* currentParent.querySelector(`:scope > ${simpleChildCss}`) === element
childCssParsed(element, currentParent, css, sel) ==
    IF ~sel.ok THEN Thrown
    ELSE IF firstOf({c \in Nodes : Parent(c) = currentParent /\ matchesSelector(c, sel)})
            = element
    THEN Chained(Returned(<<"locator", "(", "\"">> \o css \o <<"\"", ")">>),
                 currentParent, Seg("locator", css, Null))
    ELSE Returned(Null)

childCss(element, currentParent, css) ==
    childCssParsed(element, currentParent, css, parseSelector(css))

\* the relative child locator inside an ancestor, Null when there is none; thr
\* when the selector engine rejects the child selector. testId, role and
\* accessibleName are those of the element
childLocatorPart(fw, element, currentParent, testId, role, accessibleName) ==
    IF Truthy(testId)
       /\ firstOf({d \in Descendants(currentParent) : dom[d].testid = testId}) = element
    THEN Chained(Returned(stripPage(formatLocatorFull(fw, "getByTestId", testId, NoOpts))),
                 currentParent, Seg("getByTestId", testId, Null))
    ELSE IF Truthy(role) /\ Truthy(accessibleName)
            /\ Cardinality({el \in Descendants(currentParent) :
                              /\ actualRoleFull(el) = role
                              /\ getAccessibleNameFull(el) = accessibleName
                              /\ el = element}) = 1
    THEN Chained(Returned(stripPage(formatLocatorFull(fw, "getByRole", role,
                                                      NameExact(accessibleName)))),
                 currentParent, Seg("getByRole", role, accessibleName))
    ELSE IF Truthy(accessibleName) /\ StrLen(accessibleName) < NameCapFull
            /\ Cardinality({el \in Descendants(currentParent) :
                              getAccessibleNameFull(el) = accessibleName /\ el = element}) = 1
    THEN Chained(Returned(stripPage(formatLocatorFull(fw, "getByText", accessibleName,
                                                      ExactOnly))),
                 currentParent, Seg("getByText", accessibleName, Null))
    ELSE childCss(element, currentParent, simpleChildCss(element, currentParent))

\* the last two fallbacks: the CSS path, or the tag name
cssOrTag(fw, element, cssSelector) ==
    IF cssSelector # <<>>
    THEN Returned(<<"page", ".", "locator", "(", "\"">> \o cssSelector \o <<"\"", ")">>
                  \o <<" ">> \o genericCssComment(fw))
    ELSE Returned(<<"page", ".", "locator", "(", "\"", dom[element].tag, "\"", ")">>
                  \o <<" ">> \o criticalComment(fw))

\* the fallbacks after the chaining loop
fallbackFull(fw, element, textContentName) ==
    IF Truthy(textContentName) /\ StrLen(textContentName) < NameCapFull
    THEN Returned(formatLocatorFull(fw, "getByText", textContentName, NoOpts)
                  \o <<" ">> \o textWarningComment(fw))
    ELSE cssOrTag(fw, element, generateCSSPath(element))

RECURSIVE chainLoopFull(_, _, _, _, _, _, _)

\* a stable ancestor and the child part found inside it
chainChildFull(candidate, child) ==
    IF child.thr THEN Thrown
    ELSE Chained(formatChainedLocator(candidate, child.text), child.anc, child.seg)

\* one ancestor of the chaining loop, given its stable locator and the child
\* part inside it
chainStepFull(fw, element, testId, role, name, currentParent, i, candidate, child) ==
    IF candidate # Null /\ (child.thr \/ child.text # Null)
    THEN chainChildFull(candidate, child)
    ELSE chainLoopFull(fw, element, testId, role, name, Parent(currentParent), i + 1)

\* the chaining loop of the full-ladder synthesizer, then its fallbacks
chainLoopFull(fw, element, testId, role, name, currentParent, i) ==
    IF i < ChainDepthFull /\ currentParent # NoNode
       /\ currentParent # Body /\ currentParent # Html
    THEN chainStepFull(fw, element, testId, role, name, currentParent, i,
                       parentLocatorCandidate(fw, currentParent),
                       childLocatorPart(fw, element, currentParent, testId, role, name))
    ELSE fallbackFull(fw, element, name)

\* validatePlaywrightLocatorUniqueness holds of the exact form, or else of the
\* partial form, of a tier
uniqueEither(element, method, value, exact, partial) ==
    \/ validatePlaywrightLocatorUniqueness(element, method, value, exact)
    \/ validatePlaywrightLocatorUniqueness(element, method, value, partial)

\* the exact form when it is unique, else the partial form
formatEither(element, fw, method, value, exact, partial) ==
    IF validatePlaywrightLocatorUniqueness(element, method, value, exact)
    THEN Returned(formatLocatorFull(fw, method, value, exact))
    ELSE Returned(formatLocatorFull(fw, method, value, partial))

\* strategies 4 to 8: the lower ladder without the label
lowerLadderFullWithoutLabel(element, fw, testId, role, name, placeholder, title) ==
    IF Truthy(placeholder)
       /\ uniqueEither(element, "getByPlaceholder", placeholder, ExactOnly, NoOpts)
    THEN formatEither(element, fw, "getByPlaceholder", placeholder, ExactOnly, NoOpts)
    ELSE IF dom[element].tag = "img" /\ Truthy(dom[element].alt)
            /\ uniqueEither(element, "getByAltText", dom[element].alt, ExactOnly, NoOpts)
    THEN formatEither(element, fw, "getByAltText", dom[element].alt, ExactOnly, NoOpts)
    ELSE IF Truthy(title) /\ StrLen(title) < NameCapFull
            /\ uniqueEither(element, "getByTitle", title, ExactOnly, NoOpts)
    THEN formatEither(element, fw, "getByTitle", title, ExactOnly, NoOpts)
    ELSE IF Truthy(name) /\ StrLen(name) < NameCapFull
            /\ validatePlaywrightLocatorUniqueness(element, "getByText", name, ExactOnly)
    THEN Returned(formatLocatorFull(fw, "getByText", name, ExactOnly))
    ELSE chainLoopFull(fw, element, testId, role, name, Parent(element), 0)

\* strategies 3 to 8 over the element's accessible name, placeholder and title
lowerLadderFull(element, fw, testId, role, name, placeholder, title) ==
    IF Truthy(name) /\ dom[element].tag \notin {"button", "a"}
       /\ uniqueEither(element, "getByLabel", name, ExactOnly, NoOpts)
    THEN formatEither(element, fw, "getByLabel", name, ExactOnly, NoOpts)
    ELSE IF Truthy(placeholder)
            /\ uniqueEither(element, "getByPlaceholder", placeholder, ExactOnly, NoOpts)
    THEN formatEither(element, fw, "getByPlaceholder", placeholder, ExactOnly, NoOpts)
    ELSE IF dom[element].tag = "img" /\ Truthy(dom[element].alt)
            /\ uniqueEither(element, "getByAltText", dom[element].alt, ExactOnly, NoOpts)
    THEN formatEither(element, fw, "getByAltText", dom[element].alt, ExactOnly, NoOpts)
    ELSE IF Truthy(title) /\ StrLen(title) < NameCapFull
            /\ uniqueEither(element, "getByTitle", title, ExactOnly, NoOpts)
    THEN formatEither(element, fw, "getByTitle", title, ExactOnly, NoOpts)
    ELSE IF Truthy(name) /\ StrLen(name) < NameCapFull
            /\ validatePlaywrightLocatorUniqueness(element, "getByText", name, ExactOnly)
    THEN Returned(formatLocatorFull(fw, "getByText", name, ExactOnly))
    ELSE chainLoopFull(fw, element, testId, role, name, Parent(element), 0)

\* the ladder without strategy 2: from the test id straight to the label
ladderFullWithoutRole(element, fw, testId, role, name) ==
    IF Truthy(testId)
       /\ validatePlaywrightLocatorUniqueness(element, "getByTestId", testId, NoOpts)
    THEN Returned(formatLocatorFull(fw, "getByTestId", testId, NoOpts))
    ELSE lowerLadderFull(element, fw, testId, role, name,
                         placeholderProp(element), titleProp(element))

\* strategies 1 and 2 over the element's test id, role and accessible name
ladderFull(element, fw, testId, role, name) ==
    IF Truthy(testId)
       /\ validatePlaywrightLocatorUniqueness(element, "getByTestId", testId, NoOpts)
    THEN Returned(formatLocatorFull(fw, "getByTestId", testId, NoOpts))
    ELSE IF Truthy(role) /\ Truthy(name)
            /\ uniqueEither(element, "getByRole", role, NameExact(name), NameOnly(name))
    THEN formatEither(element, fw, "getByRole", role, NameExact(name), NameOnly(name))
    ELSE IF Truthy(role)
            /\ validatePlaywrightLocatorUniqueness(element, "getByRole", role, NoOpts)
    THEN Returned(formatLocatorFull(fw, "getByRole", role, NoOpts))
    ELSE lowerLadderFull(element, fw, testId, role, name,
                         placeholderProp(element), titleProp(element))

\* generateBestLocator(element, framework) of the full-ladder content script
generateBestLocatorFull(element, fw) ==
    ladderFull(element, fw, testIdOf(element), actualRoleFull(element),
               getAccessibleNameFull(element))

---------------------------------------------------------------------------
(* The verifiers *)

\* the words a text can hold that start with "getBy"
GetByWords == JsMethods \cup {"getByFoo"}

\* locatorString.includes('getBy')
includesGetBy(text) == \E i \in 1..Len(text) : text[i] \in GetByWords

\* the first position from i on that holds no white space (Len + 1 when none)
skipWs(text, i) ==
    IF \E j \in i..Len(text) : ~IsWs(text[j])
    THEN CHOOSE j \in i..Len(text) : ~IsWs(text[j]) /\ \A k \in i..(j - 1) : IsWs(text[k])
    ELSE Len(text) + 1

noNewline(text, from, to) == \A k \in from..to : text[k] # "\n"

NoMatch == [ok |-> FALSE, method |-> "", args |-> <<>>]

\* locatorString.match(/(getBy[A-Za-z]+)\s*\((.*)\)/): the leftmost getBy word that
\* is followed by "(" and, on the same line, a ")"; the arguments run to the last one
matchLocator(text) ==
    LET opensAt(i) == skipWs(text, i + 1)
        closes(i) == {k \in (opensAt(i) + 1)..Len(text) :
                        text[k] = ")" /\ noNewline(text, opensAt(i) + 1, k - 1)}
        hits == {i \in 1..Len(text) :
                    /\ text[i] \in GetByWords
                    /\ opensAt(i) <= Len(text)
                    /\ text[opensAt(i)] = "("
                    /\ closes(i) # {}}
        i0 == CHOOSE i \in hits : \A j \in hits : i <= j
        k0 == CHOOSE k \in closes(i0) : \A j \in closes(i0) : j <= k
    IN IF hits = {} THEN NoMatch
       ELSE [ok |-> TRUE, method |-> text[i0],
             args |-> SubSeq(text, opensAt(i0) + 1, k0 - 1)]

NoValue == [ok |-> FALSE, value |-> <<>>]

\* the text between the quote at position a and the next quote on the same line
quotedFrom(text, a) ==
    LET ends == {b \in (a + 1)..Len(text) :
                    /\ text[b] \in QuoteChars
                    /\ noNewline(text, a + 1, b - 1)
                    /\ \A k \in (a + 1)..(b - 1) : text[k] \notin QuoteChars}
    IN IF a > Len(text) \/ text[a] \notin QuoteChars \/ ends = {} THEN NoValue
       ELSE LET b == CHOOSE b \in ends : TRUE
            IN [ok |-> TRUE, value |-> SubSeq(text, a + 1, b - 1)]

\* rawArgs.match(/['"`](.*?)['"`]/)
matchArg(rawArgs) ==
    LET hits == {a \in 1..Len(rawArgs) : quotedFrom(rawArgs, a).ok}
    IN IF hits = {} THEN NoValue
       ELSE quotedFrom(rawArgs, CHOOSE a \in hits : \A b \in hits : a <= b)

\* rawArgs.match(/name\s*:\s*['"`](.*?)['"`]/)
matchName(rawArgs) ==
    LET colonAt(i) == skipWs(rawArgs, i + 1)
        quoteAt(i) == skipWs(rawArgs, colonAt(i) + 1)
        hits == {i \in 1..Len(rawArgs) :
                    /\ rawArgs[i] = "name"
                    /\ colonAt(i) <= Len(rawArgs)
                    /\ rawArgs[colonAt(i)] = ":"
                    /\ quotedFrom(rawArgs, quoteAt(i)).ok}
    IN IF hits = {} THEN NoValue
       ELSE quotedFrom(rawArgs, quoteAt(CHOOSE i \in hits : \A j \in hits : i <= j))

\* locatorString.match(/locator\s*\(\s*(['"`])(.*?)\1\s*\)/): the text between the
\* opening quote and the first same quote that is followed by ")"
matchLocatorCss(text) ==
    LET parenAt(i) == skipWs(text, i + 1)
        quoteAt(i) == skipWs(text, parenAt(i) + 1)
        ends(i) == {b \in (quoteAt(i) + 1)..Len(text) :
                      /\ text[b] = text[quoteAt(i)]
                      /\ noNewline(text, quoteAt(i) + 1, b - 1)
                      /\ skipWs(text, b + 1) <= Len(text)
                      /\ text[skipWs(text, b + 1)] = ")"}
        hits == {i \in 1..Len(text) :
                    /\ text[i] = "locator"
                    /\ parenAt(i) <= Len(text)
                    /\ text[parenAt(i)] = "("
                    /\ quoteAt(i) <= Len(text)
                    /\ text[quoteAt(i)] \in QuoteChars
                    /\ ends(i) # {}}
        i0 == CHOOSE i \in hits : \A j \in hits : i <= j
        b0 == CHOOSE b \in ends(i0) : \A c \in ends(i0) : b <= c
    IN IF hits = {} THEN NoValue
       ELSE [ok |-> TRUE, value |-> SubSeq(text, quoteAt(i0) + 1, b0 - 1)]

\* the switch of findAndHighlight: does an element satisfy the parsed call;
\* nameMatch is the name option found in the arguments
verifierMatches(el, method, value, nameMatch) ==
    CASE method = "getByRole" ->
            IF nameMatch.ok
            THEN getImplicitRole(el) = value
                 /\ includes(getAccessibleName(el), nameMatch.value)
            ELSE getImplicitRole(el) = value
      [] method = "getByText" -> includes(trim(innerTextOrContent(el)), value)
      [] method = "getByLabel" -> includes(getAccessibleName(el), value)
      [] method = "getByPlaceholder" -> dom[el].placeholder = value
      [] method = "getByAltText" -> dom[el].alt = value
      [] method = "getByTitle" -> dom[el].title = value
      [] method = "getByTestId" -> testIdOf(el) = value
      [] OTHER -> FALSE

\* what a verifier returns: the elements it marked and their number, or that it raised
Found(S) == [thr |-> FALSE, nodes |-> S, count |-> Cardinality(S)]
Raised == [thr |-> TRUE, nodes |-> {}, count |-> -1]

\* the visible elements that satisfy the call, when its first argument is quoted
foundByCall(method, argMatch, nameMatch) ==
    IF argMatch.ok
    THEN Found({el \in AllElements :
                  HasOffsetParent(el) /\ verifierMatches(el, method, argMatch.value, nameMatch)})
    ELSE Found({})

\* the getBy branch over the match of the call
foundByMatch(locatorMatch, rawArgs) ==
    IF locatorMatch.ok
    THEN foundByCall(locatorMatch.method, matchArg(rawArgs), matchName(rawArgs))
    ELSE Found({})

\* document.querySelectorAll(locatorCssMatch[2]), outside any try
foundByCss(inner) == IF inner.thr THEN Raised ELSE Found(inner.nodes)

\* the second pass: a locator(...) call first, else a getBy call
secondPass(locatorString, locatorCssMatch, locatorMatch) ==
    IF locatorCssMatch.ok THEN foundByCss(querySelectorAll(NoNode, locatorCssMatch.value))
    ELSE foundByMatch(locatorMatch, trim(locatorMatch.args))

\* the first pass: the text as a CSS selector, errors ignored, unless it holds getBy
firstPass(locatorString, css) ==
    IF ~css.thr /\ css.nodes # {} /\ ~includesGetBy(locatorString)
    THEN Found(css.nodes)
    ELSE secondPass(locatorString, matchLocatorCss(locatorString),
                    matchLocator(locatorString))

\* findAndHighlight(locatorString), after the old markers are cleared
findAndHighlight(locatorString) ==
    firstPass(locatorString, querySelectorAll(NoNode, locatorString))

\* the try of highlightElements: an invalid selector gives 0
highlighted(css) == IF css.thr THEN Found({}) ELSE Found(css.nodes)

\* highlightElements(selector) of the popup
highlightElements(selector) == highlighted(querySelectorAll(NoNode, selector))

---------------------------------------------------------------------------
(* The documents and the texts the model runs the program on *)

\* an element with no attribute, no class and no text of its own, laid out normally
Plain(tag) ==
    [tag |-> tag, offsetParent |-> TRUE, displayed |-> TRUE, hidden |-> FALSE,
     type |-> Null, role |-> Null, testid |-> Null, qa |-> Null, dtest |-> Null,
     ariaLabel |-> Null, labelledby |-> Null, id |-> Null, for |-> Null,
     placeholder |-> Null, alt |-> Null, title |-> Null, value |-> Null,
     classList |-> <<>>, text |-> <<>>]

Div == Plain("div")
DivT == [Plain("div") EXCEPT !.testid = <<"t">>]
DivFoo == [Plain("div") EXCEPT !.classList = << <<"f", "o", "o">> >>]
BtnA == [Plain("button") EXCEPT !.text = <<"a">>]
BtnAB == [Plain("button") EXCEPT !.text = <<"a", "b">>]
BtnAT == [Plain("button") EXCEPT !.text = <<"a">>, !.qa = <<"t">>]
\* position: fixed: rendered, but offsetParent is null
BtnAFixed == [Plain("button") EXCEPT !.text = <<"a">>, !.offsetParent = FALSE]
\* the same with an aria-label and no text
BtnLFixed == [Plain("button") EXCEPT !.ariaLabel = <<"l">>, !.offsetParent = FALSE]

\* <input type="text" placeholder="p">: a role, a placeholder and no name
InputP == [Plain("input") EXCEPT !.type = <<"text">>, !.placeholder = <<"p">>]

\* <button></button>: a role and no name
Btn == Plain("button")

\* <div id="i">
DivId == [Plain("div") EXCEPT !.id = <<"i">>]

Profiles == {Div, DivT, DivFoo, BtnA, BtnAB, BtnAT, BtnAFixed, BtnLFixed, InputP, Btn,
             DivId}

\* the root and the body have no offsetParent
HtmlElement == [Plain("html") EXCEPT !.offsetParent = FALSE]
BodyElement == [Plain("body") EXCEPT !.offsetParent = FALSE]

RECURSIVE AncOrSelfIn(_, _)
AncOrSelfIn(par, n) == IF n = Body THEN {Body} ELSE {n} \cup AncOrSelfIn(par, par[n])

\* parent vectors that list the elements below the body in document order
Shapes ==
    {par \in [Below -> {Body} \cup Below] :
        /\ par[2] = Body
        /\ \A n \in Below : par[n] < n
        /\ \A n \in Below : n > 2 => par[n] \in AncOrSelfIn(par, n - 1)}

withParent(e, p) ==
    [tag |-> e.tag, parent |-> p, offsetParent |-> e.offsetParent,
     displayed |-> e.displayed, hidden |-> e.hidden,
     type |-> e.type, role |-> e.role, testid |-> e.testid, qa |-> e.qa,
     dtest |-> e.dtest, ariaLabel |-> e.ariaLabel, labelledby |-> e.labelledby,
     id |-> e.id, for |-> e.for, placeholder |-> e.placeholder, alt |-> e.alt,
     title |-> e.title, value |-> e.value, classList |-> e.classList, text |-> e.text]

Tree(par, prof) ==
    [n \in Nodes |->
        IF n = Html THEN withParent(HtmlElement, NoNode)
        ELSE IF n = Body THEN withParent(BodyElement, Html)
        ELSE withParent(prof[n], par[n])]

Trees == {Tree(par, prof) : par \in Shapes, prof \in [Below -> Profiles]}

Variants == {"rec", "full"}
Verifiers == {"content", "popup"}

\* texts handed to the verifiers
QFoo == <<".", "f", "o", "o">>
QDiv == <<"div">>
QBang == <<"!", "!">>
QLocatorBang == <<"locator", "(", "\"", "!", "!", "\"", ")">>
QLocatorFoo == <<"locator", "(", "\"", ".", "f", "o", "o", "\"", ")">>
QRoleButton == <<"getByRole", "(", "\"", "button", "\"", ")">>
QRoleButtonA ==
    <<"page", ".", "getByRole", "(", "\"", "button", "\"", ",", " ", "{", " ",
      "name", ":", " ", "\"", "a", "\"", " ", "}", ")">>
QRoleButtonAExact ==
    <<"page", ".", "getByRole", "(", "\"", "button", "\"", ",", " ", "{", " ",
      "name", ":", " ", "\"", "a", "\"", ",", " ", "exact", ":", " ", "true", " ", "}", ")">>
QTextA == <<"getByText", "(", "'", "a", "'", ")">>
QTestIdT == <<"getByTestId", "(", "\"", "t", "\"", ")">>
QChainTestIdRole ==
    <<"page", ".", "getByTestId", "(", "\"", "t", "\"", ")", ".",
      "getByRole", "(", "\"", "button", "\"", ")">>
QChainTestIdLocator ==
    <<"page", ".", "getByTestId", "(", "\"", "t", "\"", ")", ".",
      "locator", "(", "\"", "div", "\"", ")">>
QUnknown == <<"getByFoo", "(", "\"", "a", "\"", ")">>
QOpen == <<"getByRole", "(">>
QEmpty == <<>>

Queries == {QFoo, QDiv, QBang, QLocatorBang, QLocatorFoo, QRoleButton, QRoleButtonA,
            QRoleButtonAExact, QTextA, QTestIdT, QChainTestIdRole, QChainTestIdLocator,
            QUnknown, QOpen, QEmpty}

---------------------------------------------------------------------------
(* Synthesis and verification called on a document *)

NoPanel == [shown |-> FALSE, text |-> <<>>, isError |-> FALSE]
\* the record of the handler that ran last: the content-script state it started
\* from, the element and the message it was given, and how synthesis ended in it
NoHandler ==
    [op |-> "none", armed |-> FALSE, fw |-> "pytest", listeners |-> 0, panel |-> NoPanel,
     target |-> NoNode, ran |-> FALSE, threw |-> FALSE, escaped |-> FALSE, sent |-> <<>>,
     action |-> "", cause |-> "", request |-> "pytest"]

PickIdle ==
    /\ isPickingMode = FALSE
    /\ currentFramework = "pytest"
    /\ listeners = 0
    /\ locatorDisplayDiv = NoPanel
    /\ panels = 0
    /\ bgActive = FALSE
    /\ toContent = <<>>
    /\ toRuntime = <<>>
    /\ last = NoHandler

SynthIdle ==
    /\ phase = "start"
    /\ target = NoNode
    /\ framework = "pytest"
    /\ result = Returned(Null)
    /\ query = <<>>
    /\ verifier = "content"
    /\ verdict = Found({})
    /\ marked = [v \in Verifiers |-> {}]

\* no function has been called on its own
NoProbe == [fn |-> "none", on |-> NoNode, arg |-> Null, within |-> NoNode, out |-> Null]

ProbeIdle == probe = NoProbe

Init ==
    /\ dom \in Trees
    /\ variant \in Variants
    /\ SynthIdle
    /\ PickIdle
    /\ ProbeIdle

\* the synthesizer of the loaded content script
synthesize(v, element, fw) ==
    IF v = "rec" THEN generateBestLocator(element, fw)
    ELSE generateBestLocatorFull(element, fw)

\* the verifier of either page: the outcome, and the marker sets it leaves
runVerifier(v, text) ==
    IF v = "content" THEN findAndHighlight(text) ELSE highlightElements(text)

\* both verifiers first remove their own markers, then mark what they found; a
\* verifier that raised has removed its markers and marked nothing
markersAfter(v, outcome) == [marked EXCEPT ![v] = outcome.nodes]

\* generateBestLocator(element, framework) called on an element of the page
Synthesize(element, fw) ==
    /\ phase = "start"
    /\ phase' = "synth"
    /\ target' = element
    /\ framework' = fw
    /\ result' = synthesize(variant, element, fw)
    /\ UNCHANGED <<dom, variant, query, verifier, verdict, marked>>
    /\ UNCHANGED <<pickVars, probe>>

\* a verifier has run on a text: its outcome and its markers are in the state
Verified(v, text, outcome) ==
    /\ query' = text
    /\ verifier' = v
    /\ verdict' = outcome
    /\ marked' = markersAfter(v, outcome)
    /\ UNCHANGED <<dom, variant, target, framework, result>>
    /\ UNCHANGED <<pickVars, probe>>

\* the text the synthesizer returned is handed to findAndHighlight
VerifyResult ==
    /\ phase = "synth"
    /\ ~result.thr
    /\ phase' = "roundtrip"
    /\ Verified("content", result.text, runVerifier("content", result.text))

\* a verifier called with a text the user entered: a first call, or a later call
\* on a page that carries the markers of that verifier's last call
Verify(v, text) ==
    /\ \/ phase = "start"
       \/ phase = "verify" /\ marked[v] # {}
    /\ phase' = "verify"
    /\ Verified(v, text, runVerifier(v, text))

Next ==
    \/ \E element \in Nodes, fw \in Frameworks : Synthesize(element, fw)
    \/ VerifyResult
    \/ \E v \in Verifiers, text \in Queries : Verify(v, text)

Spec == Init /\ [][Next]_vars

---------------------------------------------------------------------------
(* Vocabulary of the properties *)

\* a synthesis has run and its result is in the state
Synthesized == target # NoNode

\* role and accessible name as the loaded content script computes them
roleV(n) == IF variant = "rec" THEN getImplicitRole(n) ELSE actualRoleFull(n)
nameV(n) == IF variant = "rec" THEN getAccessibleName(n) ELSE getAccessibleNameFull(n)

\* the visibility predicate: rendered with an offset parent and not hidden
Visible(n) == dom[n].offsetParent /\ ~dom[n].hidden

\* the text carries a WARNING or CRITICAL WARNING annotation
Annotated(text) == \E i \in 1..Len(text) : text[i] = "WARNING"

PyMethods == {"get_by_test_id", "get_by_role", "get_by_text", "get_by_label",
              "get_by_placeholder", "get_by_alt_text", "get_by_title"}

\* the number of segments of a rendered expression
segmentCount(text) ==
    Cardinality({i \in 1..Len(text) : text[i] \in JsMethods \cup PyMethods \cup {"locator"}})

\* page.<method>("<value>") in the dialect fw, for a value that needs no escape
CallText(fw, pyName, jsName, value) ==
    <<"page", ".", IF fw = "pytest" THEN pyName ELSE jsName, "(", "\"">>
    \o value \o <<"\"", ")">>

\* the text is one un-annotated RoleName segment with that role and that name
IsRoleNameText(text, fw, role, name) ==
    LET head == <<"page", ".", IF fw = "pytest" THEN "get_by_role" ELSE "getByRole",
                  "(", "\"">> \o role \o <<"\"", ",", " ">>
        nm == (IF fw = "pytest" THEN <<"name", "=">> ELSE <<"name", ":", " ">>)
              \o <<"\"">> \o name \o <<"\"">>
    IN /\ startsWith(text, head)
       /\ includes(text, nm)
       /\ text[Len(text)] = ")"
       /\ segmentCount(text) = 1
       /\ ~Annotated(text)

\* no other node of the document has the role and the accessible name of n
pairUnique(n) ==
    /\ Truthy(roleV(n))
    /\ Truthy(nameV(n))
    /\ \A m \in Nodes \ {n} : ~(roleV(m) = roleV(n) /\ nameV(m) = nameV(n))

\* the descendants of an ancestor that satisfy the predicate of a child segment
segNodes(anc, seg) ==
    CASE seg.kind = "getByTestId" ->
            {d \in Descendants(anc) : testIdOf(d) = seg.value}
      [] seg.kind = "getByRole" ->
            {d \in Descendants(anc) :
                roleV(d) = seg.value /\ (seg.name = Null \/ nameV(d) = seg.name)}
      [] seg.kind = "getByText" ->
            {d \in Descendants(anc) : nameV(d) = seg.value}
      [] seg.kind = "locator" -> querySelectorAll(anc, seg.value).nodes
      [] OTHER -> {}

\* the text is a call of the small grammar: a recognized method with a quoted
\* value, or locator("...") around a valid structural selector
WellFormedCall(text) ==
    LET t == stripPage(trim(text))
    IN /\ Len(t) >= 5
       /\ t[2] = "("
       /\ t[3] \in QuoteChars
       /\ t[Len(t)] = ")"
       /\ \/ t[1] \in JsMethods /\ quotedFrom(t, 3).ok
          \/ /\ t[1] = "locator"
             /\ t[Len(t) - 1] = t[3]
             /\ parseSelector(SubSeq(t, 4, Len(t) - 2)).ok

ValidSelector(text) == parseSelector(text).ok

---------------------------------------------------------------------------
(* Properties of synthesis and verification *)

\* C1: a target with a non-empty test-id-family attribute gets the single
\* TestId segment with that literal value, whatever else the document holds
C1_TestIdPriority ==
    (Synthesized /\ Truthy(testIdOf(target)))
    => /\ ~result.thr
       /\ result.text = CallText(framework, "get_by_test_id", "getByTestId", testIdOf(target))

C3_RoundTrip ==
    (phase = "roundtrip" /\ variant = "rec" /\ ~Annotated(result.text))
    => /\ ~verdict.thr
       /\ verdict.count = 1
       /\ verdict.nodes = {target}
       /\ marked["content"] = {target}

\* C4: the child segment of a chained result, evaluated over the descendants of
\* the chosen ancestor, is satisfied by the target and by no other node
C4_ChildSegmentUnique ==
    (Synthesized /\ ~result.thr /\ result.anc # NoNode)
    => segNodes(result.anc, result.seg) = {target}

\* C5: a text that is neither a valid structural selector nor a well-formed
\* locator call makes the verifier return 0 without raising
C5_VerifyInvalid ==
    (phase = "verify" /\ ~ValidSelector(query) /\ ~WellFormedCall(query))
    => /\ ~verdict.thr
       /\ verdict.count = 0

\* C6: synthesis returns a locator text for every element, in both dialects,
\* and raises nothing
C6_NeverThrows ==
    Synthesized => (~result.thr /\ Truthy(result.text))

---------------------------------------------------------------------------
(* Picking mode: the content script, the background page and the popup *)

\* messages that may wait in either channel
MaxQueue == 2

\* a star below the first element, which carries a test id; flat empty blocks;
\* flat buttons
StarTree ==
    Tree([n \in Below |-> IF n = 2 THEN Body ELSE 2],
         [n \in Below |-> IF n = 2 THEN DivT ELSE BtnA])
EmptyTree == Tree([n \in Below |-> Body], [n \in Below |-> Div])
ButtonTree == Tree([n \in Below |-> Body], [n \in Below |-> IF n = 2 THEN BtnA ELSE BtnAB])

PickTrees == {StarTree, EmptyTree, ButtonTree}

\* the state of the content script that the picking functions read and write
ContentState ==
    [isPickingMode |-> isPickingMode, currentFramework |-> currentFramework,
     listeners |-> listeners, panel |-> locatorDisplayDiv, attached |-> panels]

\* a hideLocatorDisplay that forgets the panel and leaves it in the document
hideWithoutRemove(st) == [st EXCEPT !.panel = NoPanel]

\* hideLocatorDisplay(): the panel the script holds is removed from the document
\* and forgotten; nothing when it holds none
hideLocatorDisplay(st) ==
    IF st.panel.shown THEN [st EXCEPT !.panel = NoPanel, !.attached = @ - 1]
    ELSE st

\* the state has isPickingMode set, the dialect kept and the click listener
\* registered
armedWith(st, fw) ==
    [st EXCEPT !.isPickingMode = TRUE, !.currentFramework = fw, !.listeners = 1]

\* an enablePickingMode without its guard
enablePickingModeUnguarded(st, fw) == armedWith(hideLocatorDisplay(st), fw)

\* enablePickingMode(framework): nothing when armed; else arm, keep the dialect,
\* register the click listener and hide the panel
enablePickingMode(st, fw) ==
    IF st.isPickingMode THEN st
    ELSE armedWith(hideLocatorDisplay(st), fw)

\* disablePickingMode(): nothing when idle; else disarm and remove the listener
disablePickingMode(st) ==
    IF ~st.isPickingMode THEN st
    ELSE [st EXCEPT !.isPickingMode = FALSE, !.listeners = 0]

\* a new panel is created, held in locatorDisplayDiv and appended to the body
appendPanel(hidden, text, isError) ==
    [hidden EXCEPT !.panel = [shown |-> TRUE, text |-> text, isError |-> isError],
                   !.attached = @ + 1]

\* displayLocatorOnPage(text, isError): the old panel is hidden first, then a
\* new one is shown
displayLocatorOnPage(st, text, isError) ==
    appendPanel(hideLocatorDisplay(st), text, isError)

ErrorText == <<"An error occurred">>
NoLocatorText == <<"Could not generate a unique locator.">>

\* the action name of the message a content script sends after a pick
pickedAction(v) == IF v = "rec" THEN "elementPicked" ELSE "elementPickedAndGenerated"

\* how a run of handlePageClick ended: the state it leaves, the messages it sent,
\* whether synthesis ran, raised, and whether what it raised left the handler
Handled(st, sent, ran, threw, escaped) ==
    [st |-> st, sent |-> sent, ran |-> ran, threw |-> threw, escaped |-> escaped]

\* the try / catch / finally of the recursive handlePageClick around the
\* synthesis: the locator is displayed and sent, what was raised is displayed
\* as an error, and picking mode is disabled in either case
handledRec(once, generatedLocator) ==
    IF generatedLocator.thr
    THEN Handled(disablePickingMode(displayLocatorOnPage(once, ErrorText, TRUE)),
                 <<>>, TRUE, TRUE, FALSE)
    ELSE IF generatedLocator.text # <<>> /\ generatedLocator.text # Null
    THEN Handled(disablePickingMode(displayLocatorOnPage(once, generatedLocator.text, FALSE)),
                 << [action |-> "elementPicked", locator |-> generatedLocator.text] >>,
                 TRUE, FALSE, FALSE)
    ELSE Handled(disablePickingMode(displayLocatorOnPage(once, NoLocatorText, TRUE)),
                 <<>>, TRUE, FALSE, FALSE)

\* handlePageClick(event) of the recursive content script, called by a listener
\* registered with once: the listener is gone when the handler starts
handlePageClickRec(st, element) ==
    IF ~st.isPickingMode
    THEN Handled([st EXCEPT !.listeners = 0], <<>>, FALSE, FALSE, FALSE)
    ELSE handledRec([st EXCEPT !.listeners = 0],
                    generateBestLocator(element, st.currentFramework))

\* the body of the full-ladder handlePageClick: nothing around the synthesis, so
\* what it raises leaves the handler before anything else is done
handledFull(st, generatedLocator) ==
    IF generatedLocator.thr THEN Handled(st, <<>>, TRUE, TRUE, TRUE)
    ELSE Handled(disablePickingMode(displayLocatorOnPage(st, generatedLocator.text, FALSE)),
                 << [action |-> "elementPickedAndGenerated",
                     locator |-> generatedLocator.text] >>,
                 TRUE, FALSE, FALSE)

\* handlePageClick(event) of the full-ladder content script
handlePageClickFull(st, element) ==
    IF ~st.isPickingMode THEN Handled(st, <<>>, FALSE, FALSE, FALSE)
    ELSE handledFull(st, generateBestLocatorFull(element, st.currentFramework))

handlePageClick(v, st, element) ==
    IF v = "rec" THEN handlePageClickRec(st, element) ELSE handlePageClickFull(st, element)

\* the onMessage listener of the content scripts: only togglePickingMode is handled
onMessage(st, request) ==
    IF request.action = "togglePickingMode"
    THEN IF st.isPickingMode THEN disablePickingMode(st)
         ELSE enablePickingMode(st, request.framework)
    ELSE st

setContent(st) ==
    /\ isPickingMode' = st.isPickingMode
    /\ currentFramework' = st.currentFramework
    /\ listeners' = st.listeners
    /\ locatorDisplayDiv' = st.panel
    /\ panels' = st.attached

\* no handler of the content script ran, no message was read
NoOutcome == Handled(ContentState, <<>>, FALSE, FALSE, FALSE)
NoMessage == [action |-> "", framework |-> "pytest", cause |-> ""]

\* the record of a step: the content-script state it started from, the element
\* clicked, how the click handler ended, and the message or the request it was given
Handler(op, element, outcome, message) ==
    [op |-> op, armed |-> isPickingMode, fw |-> currentFramework, listeners |-> listeners,
     panel |-> locatorDisplayDiv, target |-> element, ran |-> outcome.ran,
     threw |-> outcome.threw, escaped |-> outcome.escaped, sent |-> outcome.sent,
     action |-> message.action, cause |-> message.cause, request |-> message.framework]

InitPick ==
    /\ dom \in PickTrees
    /\ variant \in Variants
    /\ SynthIdle
    /\ PickIdle
    /\ ProbeIdle

\* chrome.action.onClicked of the background page: the tab's flag is toggled and
\* the content script is told to enable or to disable picking in pytest
ToolbarClick ==
    /\ Len(toContent) < MaxQueue
    /\ bgActive' = ~bgActive
    /\ toContent' = Append(toContent,
                           [action |-> IF ~bgActive THEN "enablePickingMode"
                                       ELSE "disablePickingMode",
                            framework |-> "pytest", cause |-> "toolbar"])
    /\ last' = Handler("toolbar", NoNode, NoOutcome, NoMessage)
    /\ UNCHANGED <<isPickingMode, currentFramework, listeners, locatorDisplayDiv, panels,
                 toRuntime>>
    /\ UNCHANGED <<dom, variant>>
    /\ UNCHANGED <<synthVars, probe>>

\* the Pick Element button of the popup: togglePickingMode with the chosen dialect
PopupPick(fw) ==
    /\ Len(toContent) < MaxQueue
    /\ toContent' = Append(toContent,
                           [action |-> "togglePickingMode", framework |-> fw,
                            cause |-> "popup"])
    /\ last' = Handler("popup", NoNode, NoOutcome, NoMessage)
    /\ UNCHANGED <<isPickingMode, currentFramework, listeners, locatorDisplayDiv, panels,
                   bgActive, toRuntime>>
    /\ UNCHANGED <<dom, variant>>
    /\ UNCHANGED <<synthVars, probe>>

\* chrome.tabs.onUpdated of the background page with status 'loading': when the
\* tab's flag is set it is cleared and disablePickingMode is sent
TabLoading ==
    /\ Len(toContent) < MaxQueue
    /\ bgActive
    /\ bgActive' = FALSE
    /\ toContent' = Append(toContent,
                           [action |-> "disablePickingMode", framework |-> "pytest",
                            cause |-> "loading"])
    /\ last' = Handler("loading", NoNode, NoOutcome, NoMessage)
    /\ UNCHANGED <<isPickingMode, currentFramework, listeners, locatorDisplayDiv, panels,
                 toRuntime>>
    /\ UNCHANGED <<dom, variant>>
    /\ UNCHANGED <<synthVars, probe>>

\* the content script's onMessage listener gets the oldest message in flight
ContentReceive ==
    /\ toContent # <<>>
    /\ setContent(onMessage(ContentState, Head(toContent)))
    /\ toContent' = Tail(toContent)
    /\ last' = Handler("receive", NoNode, NoOutcome, Head(toContent))
    /\ UNCHANGED <<bgActive, toRuntime>>
    /\ UNCHANGED <<dom, variant>>
    /\ UNCHANGED <<synthVars, probe>>

\* handlePageClick has run on the element: the state it leaves is the content
\* script's, what it sent is in flight
Clicked(element, outcome) ==
    /\ setContent(outcome.st)
    /\ toRuntime' = toRuntime \o outcome.sent
    /\ last' = Handler("click", element, outcome, NoMessage)

\* a click on an element of the page: with no listener registered nothing of the
\* content script runs, else handlePageClick runs on the element
PageClick(element) ==
    /\ Len(toRuntime) < MaxQueue
    /\ IF listeners = 0
       THEN /\ last' = Handler("click", element, NoOutcome, NoMessage)
            /\ UNCHANGED <<isPickingMode, currentFramework, listeners,
                           locatorDisplayDiv, panels, toRuntime>>
       ELSE Clicked(element, handlePageClick(variant, ContentState, element))
    /\ UNCHANGED <<bgActive, toContent>>
    /\ UNCHANGED <<dom, variant>>
    /\ UNCHANGED <<synthVars, probe>>

\* chrome.runtime.onMessage of the background page gets the oldest message the
\* content script sent: elementPickedAndGenerated clears the tab's flag
RuntimeReceive ==
    /\ toRuntime # <<>>
    /\ toRuntime' = Tail(toRuntime)
    /\ bgActive' = IF Head(toRuntime).action = "elementPickedAndGenerated" THEN FALSE
                   ELSE bgActive
    /\ last' = Handler("runtime", NoNode, NoOutcome,
                       [NoMessage EXCEPT !.action = Head(toRuntime).action])
    /\ UNCHANGED <<isPickingMode, currentFramework, listeners, locatorDisplayDiv, panels,
                   toContent>>
    /\ UNCHANGED <<dom, variant>>
    /\ UNCHANGED <<synthVars, probe>>

\* enablePickingMode(framework) called in whatever state the content script is in
CallEnable(fw) ==
    /\ setContent(enablePickingMode(ContentState, fw))
    /\ last' = Handler("enable", NoNode, NoOutcome, [NoMessage EXCEPT !.framework = fw])
    /\ UNCHANGED <<bgActive, toContent, toRuntime>>
    /\ UNCHANGED <<dom, variant>>
    /\ UNCHANGED <<synthVars, probe>>

\* the Close button of the panel: hideLocatorDisplay
ClosePanel ==
    /\ locatorDisplayDiv.shown
    /\ setContent(hideLocatorDisplay(ContentState))
    /\ last' = Handler("close", NoNode, NoOutcome, NoMessage)
    /\ UNCHANGED <<bgActive, toContent, toRuntime>>
    /\ UNCHANGED <<dom, variant>>
    /\ UNCHANGED <<synthVars, probe>>

NextPick ==
    \/ ToolbarClick
    \/ \E fw \in Frameworks : PopupPick(fw)
    \/ TabLoading
    \/ ContentReceive
    \/ \E element \in Nodes : PageClick(element)
    \/ RuntimeReceive
    \/ \E fw \in Frameworks : CallEnable(fw)
    \/ ClosePanel

SpecPick == InitPick /\ [][NextPick]_vars

---------------------------------------------------------------------------
(* Properties of picking mode *)

\* the critical-annotated tag-name locator of an element
CriticalText(fw, n) ==
    <<"page", ".", "locator", "(", "\"", dom[n].tag, "\"", ")">>
    \o <<" ">> \o criticalComment(fw)

\* C7: when synthesis raises while a pick is handled, nothing leaves the
\* handler, and the panel and the message sent both carry the critical
\* tag-name locator of the clicked element
C7_ExceptionCaught ==
    (last.op = "click" /\ last.threw)
    => /\ ~last.escaped
       /\ locatorDisplayDiv.shown
       /\ locatorDisplayDiv.text = CriticalText(last.fw, last.target)
       /\ last.sent = << [action |-> pickedAction(variant),
                          locator |-> CriticalText(last.fw, last.target)] >>

\* C8: a click that arrives while picking mode is armed runs synthesis once
\* and leaves picking mode idle with no click listener registered, however
\* synthesis ended; a click that arrives while it is idle runs nothing and
\* changes nothing
C8_FirstClickConsumedOnce ==
    /\ (last.op = "click" /\ last.armed)
       => /\ last.ran
          /\ ~isPickingMode
          /\ listeners = 0
    /\ (last.op = "click" /\ ~last.armed)
       => /\ ~last.ran
          /\ last.sent = <<>>
          /\ ~isPickingMode
          /\ listeners = 0
          /\ locatorDisplayDiv = last.panel

\* C9: when the content script has read the message the background page sent
\* on a tab status of loading, picking mode is idle and no click listener is
\* registered
C9_LoadingDisarms ==
    (last.op = "receive" /\ last.action = "disablePickingMode" /\ last.cause = "loading")
    => /\ ~isPickingMode
       /\ listeners = 0

\* C10: enablePickingMode called while picking mode is armed leaves
\* isPickingMode, currentFramework, the registered click listeners and the
\* panel as they were
C10_EnableWhenArmed ==
    (last.op = "enable" /\ last.armed)
    => /\ isPickingMode = last.armed
       /\ currentFramework = last.fw
       /\ listeners = last.listeners
       /\ locatorDisplayDiv = last.panel

C10_Witness ==
    /\ last.op = "enable"
    /\ last.armed
    /\ last.listeners = 1
    /\ last.request # last.fw
    /\ currentFramework = last.fw

\* C11: in every reachable state of a content script at most one result panel
\* created by the script is attached to the document, and locatorDisplayDiv is
\* non-null exactly when such a panel is attached
C11_SinglePanel ==
    /\ panels <= 1
    /\ locatorDisplayDiv.shown <=> panels = 1

\* a pick has attached a panel and the panel's Close button has removed it
C11_Witness ==
    /\ last.op = "close"
    /\ last.panel.shown
    /\ ~locatorDisplayDiv.shown
    /\ panels = 0

\* C12: after any sequence of verify calls on an unchanged tree the nodes that
\* carry the verifier's marker are exactly the nodes its most recent call
\* matched, and that call returned their number
C12_MarkersMatchLatest ==
    phase \in {"roundtrip", "verify"}
    => /\ ~verdict.thr
       /\ marked[verifier] = verdict.nodes
       /\ verdict.count = Cardinality(marked[verifier])

\* C12, for the calls that return: the markers are the latest call's matches
\* and the value returned is their number
C12_MarkersOfReturningCall ==
    (phase \in {"roundtrip", "verify"} /\ ~verdict.thr)
    => /\ marked[verifier] = verdict.nodes
       /\ verdict.count = Cardinality(marked[verifier])

\* the arguments of a call say exact: true
saysExact(rawArgs) ==
    \E i \in 1..Len(rawArgs) :
        /\ rawArgs[i] = "exact"
        /\ skipWs(rawArgs, i + 1) <= Len(rawArgs)
        /\ rawArgs[skipWs(rawArgs, i + 1)] \in {":", "="}
        /\ skipWs(rawArgs, skipWs(rawArgs, i + 1) + 1) <= Len(rawArgs)
        /\ rawArgs[skipWs(rawArgs, skipWs(rawArgs, i + 1) + 1)] \in {"true", "True"}

\* the options the arguments of a call say: the name, and whether exact
optionsOf(nameMatch, exact) ==
    [name |-> IF nameMatch.ok THEN nameMatch.value ELSE Null, exact |-> exact]

\* the text is one call of a recognized method with a quoted value
SingleGetBy(text) ==
    /\ WellFormedCall(text)
    /\ segmentCount(text) = 1
    /\ matchLocator(text).ok
    /\ matchLocator(text).method \in JsMethods

\* the nodes the evaluator's predicate for the kind selects, computed with the
\* role and the accessible name of the verifier's own script
evaluatorSelects(method, value, o) ==
    {el \in AllElements :
        candidateWith(dom[el], method, value, o, getImplicitRole(el),
                      getAccessibleName(el), testIdOf(el))}

evaluatorOfArgs(method, rawArgs) ==
    evaluatorSelects(method, matchArg(rawArgs).value,
                     optionsOf(matchName(rawArgs), saysExact(rawArgs)))

evaluatorOfCall(locatorMatch) == evaluatorOfArgs(locatorMatch.method, trim(locatorMatch.args))

\* C13: for a call of a recognized method the matcher selects exactly the
\* visible nodes the evaluator's predicate for that kind selects, with equality
\* when the options say exact and containment otherwise
C13_MatcherReplaysEvaluator ==
    (phase \in {"roundtrip", "verify"} /\ verifier = "content" /\ SingleGetBy(query))
    => /\ ~verdict.thr
       /\ verdict.nodes = evaluatorOfCall(matchLocator(query))

\* the name option of a segment as the matcher reads it
nameOf(seg) == IF seg.name = Null THEN NoValue ELSE [ok |-> TRUE, value |-> seg.name]

\* the visible nodes of a pool that satisfy a segment by the matcher's predicate
matchedAmong(pool, seg) ==
    {d \in pool : HasOffsetParent(d) /\ verifierMatches(d, seg.kind, seg.value, nameOf(seg))}

\* the nodes below an ancestor that satisfy a segment
segmentWithin(a, seg) ==
    IF seg.kind = "locator" THEN querySelectorAll(a, seg.value).nodes
    ELSE matchedAmong(Descendants(a), seg)

\* the nodes a chained expression of two segments denotes
chainSelects(first, final) ==
    UNION {segmentWithin(a, final) : a \in matchedAmong(AllElements, first)}

\* the chained texts handed to the verifier, with their segments
Chains ==
    {[text |-> QChainTestIdRole, first |-> Seg("getByTestId", <<"t">>, Null),
      final |-> Seg("getByRole", <<"button">>, Null)],
     [text |-> QChainTestIdLocator, first |-> Seg("getByTestId", <<"t">>, Null),
      final |-> Seg("locator", <<"div">>, Null)]}

\* C14: verify given a chained expression matches the nodes that satisfy the
\* last segment among the descendants of the nodes the preceding segment matches
C14_ChainedScoped ==
    (phase = "verify" /\ verifier = "content")
    => \A c \in Chains :
          query = c.text
          => /\ ~verdict.thr
             /\ verdict.nodes = chainSelects(c.first, c.final)

\* the other of the two dialects
otherDialect(fw) == IF fw = "pytest" THEN "js" ELSE "pytest"

\* a token that names a segment's method, in either dialect
IsMethodToken(t) == t \in JsMethods \cup PyMethods \cup {"locator"}

\* the strategy kind a method token stands for
kindOf(t) ==
    CASE t \in {"getByTestId", "get_by_test_id"} -> "TestId"
      [] t \in {"getByRole", "get_by_role"} -> "Role"
      [] t \in {"getByText", "get_by_text"} -> "Text"
      [] t \in {"getByLabel", "get_by_label"} -> "Label"
      [] t \in {"getByPlaceholder", "get_by_placeholder"} -> "Placeholder"
      [] t \in {"getByAltText", "get_by_alt_text"} -> "AltText"
      [] t \in {"getByTitle", "get_by_title"} -> "Title"
      [] OTHER -> "Structural"

\* the strategy kinds of the segments of a rendered expression, in order
RECURSIVE kindsOf(_)
kindsOf(text) ==
    IF text = <<>> THEN <<>>
    ELSE IF IsMethodToken(Head(text)) THEN <<kindOf(Head(text))>> \o kindsOf(Tail(text))
    ELSE kindsOf(Tail(text))

\* the quoted values and the option words of a rendered expression, in order
IsContentToken(t) ==
    /\ ~IsMethodToken(t)
    /\ t \notin {"page", ".", "(", ")", ",", " ", "{", "}", ":", "=", "#", "//",
                 "True", "False", "true", "false"}

RECURSIVE contentOf(_)
contentOf(text) ==
    IF text = <<>> THEN <<>>
    ELSE IF IsContentToken(Head(text)) THEN <<Head(text)>> \o contentOf(Tail(text))
    ELSE contentOf(Tail(text))

\* the exact options of a rendered expression, in order
RECURSIVE exactsOf(_)
exactsOf(text) ==
    IF text = <<>> THEN <<>>
    ELSE IF Head(text) \in {"True", "true"} THEN <<TRUE>> \o exactsOf(Tail(text))
    ELSE IF Head(text) \in {"False", "false"} THEN <<FALSE>> \o exactsOf(Tail(text))
    ELSE exactsOf(Tail(text))

\* none, warning or critical
severityOf(text) ==
    IF \E i \in 1..Len(text) : text[i] = "CRITICAL" THEN "critical"
    ELSE IF Annotated(text) THEN "warning"
    ELSE "none"

\* two results of synthesis differ in surface syntax only
sameStrategy(r, q) ==
    /\ r.thr = q.thr
    /\ r.anc = q.anc
    /\ r.seg = q.seg
    /\ kindsOf(r.text) = kindsOf(q.text)
    /\ contentOf(r.text) = contentOf(q.text)
    /\ exactsOf(r.text) = exactsOf(q.text)
    /\ severityOf(r.text) = severityOf(q.text)

\* C15: for every tree and target, synthesis in the pytest dialect and in the js
\* dialect both return or both fail, with the same strategy kinds, values,
\* options and severity
C15_DialectsAgree ==
    phase = "synth"
    => sameStrategy(result, synthesize(variant, target, otherDialect(framework)))

\* C15, for the targets on which both dialects return
C15_ReturningDialectsAgree ==
    (phase = "synth" /\ ~result.thr
        /\ ~synthesize(variant, target, otherDialect(framework)).thr)
    => sameStrategy(result, synthesize(variant, target, otherDialect(framework)))

\* the visible nodes that satisfy a RoleName expression written for the target:
\* its role, and its accessible name by equality, or by containment when the
\* text says exact: false
roleNameSatisfiers(text) ==
    {m \in Nodes :
        /\ Visible(m)
        /\ roleV(m) = roleV(target)
        /\ textMatches(nameV(m), nameV(target), exactsOf(text) # <<FALSE>>)}

\* the result is the bare RoleName expression of the target
BareRoleName ==
    /\ Synthesized
    /\ ~result.thr
    /\ IsRoleNameText(result.text, framework, roleV(target), nameV(target))

\* C16: synthesis never returns an un-annotated single-segment RoleName
\* expression that more than one node satisfies
C16_NoAmbiguousRoleName ==
    BareRoleName => Cardinality(roleNameSatisfiers(result.text)) <= 1

\* C16 in the full-ladder script
C16_FullLadder ==
    (BareRoleName /\ variant = "full") => Cardinality(roleNameSatisfiers(result.text)) <= 1

\* the evaluator's predicate for a kind and a value picks the target alone
pickedAlone(method, value, o) ==
    {el \in AllElements :
        candidateWith(dom[el], method, value, o, roleV(el), nameV(el), testIdOf(el))}
    = {target}

\* a strategy without a name option identifies the target, exactly or by containment
identifies(method, value) ==
    /\ Truthy(value)
    /\ \/ pickedAlone(method, value, [name |-> Null, exact |-> TRUE])
       \/ pickedAlone(method, value, [name |-> Null, exact |-> FALSE])

\* the RoleName tier identifies the target
roleNameIdentifies(role, name) ==
    /\ Truthy(role)
    /\ Truthy(name)
    /\ \/ pickedAlone("getByRole", role, [name |-> name, exact |-> TRUE])
       \/ pickedAlone("getByRole", role, [name |-> name, exact |-> FALSE])

\* the first of the tiers Label, Placeholder, AltText, Title that identifies the
\* target, or none; Label is skipped for buttons and links
firstAttributeTier ==
    IF roleV(target) \notin {<<"button">>, <<"link">>} /\ identifies("getByLabel", nameV(target))
    THEN "Label"
    ELSE IF identifies("getByPlaceholder", dom[target].placeholder) THEN "Placeholder"
    ELSE IF identifies("getByAltText", dom[target].alt) THEN "AltText"
    ELSE IF identifies("getByTitle", dom[target].title) THEN "Title"
    ELSE "none"

\* C17: for a target without test id for which RoleName fails, the first of
\* Label, Placeholder, AltText, Title that identifies it is returned, even when
\* its role alone is unique in the document
C17_AttributeTiersBeforeRole ==
    (/\ Synthesized
     /\ ~Truthy(testIdOf(target))
     /\ ~roleNameIdentifies(roleV(target), nameV(target))
     /\ firstAttributeTier # "none")
    => /\ ~result.thr
       /\ kindsOf(result.text) = <<firstAttributeTier>>

\* synthesis has returned an expression chained on an ancestor
IsChained ==
    /\ Synthesized
    /\ ~result.thr
    /\ result.anc # NoNode

\* C18: every chained expression returned by synthesis has exactly two segments,
\* one ancestor segment followed by one child segment
C18_TwoSegments ==
    IsChained => segmentCount(result.text) = 2

\* C18 in the full-ladder script
C18_FullLadder ==
    (IsChained /\ variant = "full") => segmentCount(result.text) = 2

\* the number of levels the ancestor a is above n
RECURSIVE levelsUp(_, _)
levelsUp(n, a) == IF Parent(n) = a THEN 1 ELSE 1 + levelsUp(Parent(n), a)

\* the depth bound of the loaded script's chaining loop
depthBound == IF variant = "rec" THEN ChainDepth ELSE ChainDepthFull

\* the recursive script has a stable locator for an ancestor
stableRec(parentLocator) ==
    /\ ~parentLocator.thr
    /\ isStableParentLocator(parentLocator.text)

\* the recursive script has a relative child locator below an ancestor
childRec(a, role, relativeCSS) ==
    \/ Truthy(role) /\ isLocatorUniqueInScope("getByRole", role, target, a)
    \/ /\ ~relativeCSS.thr
       /\ Cardinality(querySelectorAll(a, relativeCSS.text).nodes) = 1

\* the full-ladder script has a relative child locator below an ancestor
childFull(child) == ~child.thr /\ child.text # Null

\* both a stable ancestor locator and a relative child locator exist for the
\* ancestor a of the target
bothExist(a) ==
    IF variant = "rec"
    THEN /\ stableRec(generateBestLocator(a, framework))
         /\ childRec(a, getImplicitRole(target), getRelativeCSS(target, a))
    ELSE /\ parentLocatorCandidate(framework, a) # Null
         /\ childFull(childLocatorPart(framework, target, a, testIdOf(target),
                                       actualRoleFull(target),
                                       getAccessibleNameFull(target)))

firstSegment(text) ==
    IF \E k \in 1..Len(text) : text[k] = ")"
    THEN SubSeq(text, 1, CHOOSE k \in 1..Len(text) :
                            text[k] = ")" /\ \A j \in 1..(k - 1) : text[j] # ")")
    ELSE text

\* the name option written in a segment of either dialect
optName(segment) ==
    LET signAt(i) == skipWs(segment, i + 1)
        quoteAt(i) == skipWs(segment, signAt(i) + 1)
        hits == {i \in 1..Len(segment) :
                    /\ segment[i] = "name"
                    /\ signAt(i) <= Len(segment)
                    /\ segment[signAt(i)] \in {":", "="}
                    /\ quotedFrom(segment, quoteAt(i)).ok}
    IN IF hits = {} THEN NoValue
       ELSE quotedFrom(segment, quoteAt(CHOOSE i \in hits : \A j \in hits : i <= j))

\* the method a segment calls, by its camel-case name
methodOf(segment) ==
    CASE kindsOf(segment) = <<"TestId">> -> "getByTestId"
      [] kindsOf(segment) = <<"Role">> -> "getByRole"
      [] kindsOf(segment) = <<"Text">> -> "getByText"
      [] kindsOf(segment) = <<"Label">> -> "getByLabel"
      [] kindsOf(segment) = <<"Placeholder">> -> "getByPlaceholder"
      [] kindsOf(segment) = <<"AltText">> -> "getByAltText"
      [] kindsOf(segment) = <<"Title">> -> "getByTitle"
      [] OTHER -> "locator"

\* the nodes that satisfy a segment document-wide, by the evaluator's predicate
segmentSatisfiers(segment) ==
    {el \in AllElements :
        candidateWith(dom[el], methodOf(segment), matchArg(segment).value,
                      optionsOf(optName(segment), saysExact(segment)),
                      roleV(el), nameV(el), testIdOf(el))}

\* the segment is a TestId, a RoleName or a Text expression
IsAncestorKind(segment) ==
    \/ kindsOf(segment) \in {<<"TestId">>, <<"Text">>}
    \/ kindsOf(segment) = <<"Role">> /\ optName(segment).ok

\* a segment that is of an ancestor kind and picks the node alone
picksAncestor(segment, anc) ==
    /\ IsAncestorKind(segment)
    /\ segmentSatisfiers(segment) = {anc}

\* C20: the ancestor segment of every returned chained expression is a TestId,
\* RoleName or Text expression satisfied document-wide by exactly one node, the
\* chosen ancestor
C20_AncestorSegmentUnique ==
    IsChained => picksAncestor(firstSegment(result.text), result.anc)

\* the expression is page.locator("<tag>") of the target and nothing more
IsTagOnly(text) ==
    /\ segmentCount(text) = 1
    /\ firstSegment(text) = <<"page", ".", "locator", "(", "\"", dom[target].tag, "\"", ")">>

\* the expression is a single Text segment that does not say exact
IsNonExactText(text) ==
    /\ kindsOf(text) = <<"Text">>
    /\ exactsOf(firstSegment(text)) # <<TRUE>>

\* the first segment of the expression is a raw structural selector
StartsStructural(text) == kindsOf(firstSegment(text)) = <<"Structural">>

\* C21, structural: an expression whose first segment is structural is annotated
C21_StructuralAnnotated ==
    (Synthesized /\ ~result.thr /\ StartsStructural(result.text))
    => severityOf(result.text) # "none"

\* C21, tag only: a tag-name-only expression is annotated critical
C21_TagOnlyCritical ==
    (Synthesized /\ ~result.thr /\ IsTagOnly(result.text))
    => severityOf(result.text) = "critical"

\* C21, text: a non-exact Text expression is annotated
C21_NonExactTextAnnotated ==
    (Synthesized /\ ~result.thr /\ IsNonExactText(result.text))
    => severityOf(result.text) # "none"

\* C21: the severity matches the tier reached: an expression that starts with a
\* structural selector carries a warning, a tag-name-only expression a critical
\* annotation, a non-exact Text expression a warning, and every un-annotated
\* expression starts with a semantic segment
C21_SeverityMatchesTier ==
    /\ C21_StructuralAnnotated
    /\ C21_TagOnlyCritical
    /\ C21_NonExactTextAnnotated

---------------------------------------------------------------------------
(* The background's flag and the content script's flag *)

\* no message is in flight in either direction
Quiet == toContent = <<>> /\ toRuntime = <<>>

\* the content script has read a message, or the background has
Delivered == last.op \in {"receive", "runtime"}

\* the content script has read enablePickingMode or disablePickingMode and is
\* armed or idle as the message says
C28_BackgroundActionsActedOn ==
    (last.op = "receive" /\ last.action \in {"enablePickingMode", "disablePickingMode"})
    => (isPickingMode <=> last.action = "enablePickingMode")

\* the background has read the message a pick sent and the tab's flag is reset
C28_PickResetsFlag ==
    (last.op = "runtime" /\ Quiet) => ~bgActive

\* C28: after every delivered message, in any interleaving of toolbar clicks,
\* popup toggles, picks and navigation signals, once nothing is in flight the
\* background's flag of the tab equals the content script's isPickingMode: the
\* content script acts on enablePickingMode and disablePickingMode, and the
\* background resets its flag on the action a pick sends
C28_FlagsAgree ==
    /\ (Delivered /\ Quiet) => bgActive = isPickingMode
    /\ C28_BackgroundActionsActedOn
    /\ C28_PickResetsFlag

---------------------------------------------------------------------------

(* The Text tier of the full ladder *)

\* getByText with exact: true on the accessible name picks the target alone
textExactIdentifies ==
    /\ Truthy(nameV(target))
    /\ pickedAlone("getByText", nameV(target), ExactOnly)

\* the un-annotated single-segment Text expressions of the target: getByText on
\* its accessible name, with exact: true or without options
BareTexts ==
    {formatLocatorFull(framework, "getByText", nameV(target), o) : o \in {ExactOnly, NoOpts}}

\* the expression of a tier that stands before the Text tier: the test id, or
\* RoleName exact for a node with a role and Label exact for the others
EarlierTierTexts ==
    {formatLocatorFull(framework, "getByTestId", testIdOf(target), NoOpts),
     IF Truthy(roleV(target))
     THEN formatLocatorFull(framework, "getByRole", roleV(target), NameExact(nameV(target)))
     ELSE formatLocatorFull(framework, "getByLabel", nameV(target), ExactOnly)}

\* C27: in the full-ladder script the Text-exact tier never produces the result:
\* whenever getByText exact picks the target alone an earlier tier has returned
\* (RoleName exact for a node with a role, Label exact for the others), and no
\* un-annotated single-segment Text expression is returned
C27_TextTierNeverReturns ==
    (Synthesized /\ variant = "full")
    => /\ ~result.thr
          => result.text \notin BareTexts
       /\ textExactIdentifies
          => ~result.thr /\ result.text \in EarlierTierTexts

\* a node without a role that getByText exact picks alone was synthesized, and the
\* Label tier returned
C27_Witness ==
    /\ Synthesized
    /\ variant = "full"
    /\ ~Truthy(roleV(target))
    /\ textExactIdentifies
    /\ ~result.thr
    /\ result.text = formatLocatorFull(framework, "getByLabel", nameV(target), ExactOnly)

---------------------------------------------------------------------------

(* The functions of the content script called on their own: a behaviour is   *)
(* one call of one function on a document                                    *)

\* the tags of both role tables, and some tags neither table lists
RoleTags ==
    {"a", "area", "button", "h1", "h2", "h3", "h4", "h5", "h6", "img", "textarea",
     "select", "li", "ul", "ol", "nav", "form", "dialog", "table", "tr", "td", "th",
     "thead", "tbody", "tfoot", "fieldset", "optgroup", "details", "option",
     "progress", "meter", "article", "aside", "footer", "header", "main", "section",
     "summary", "input", "div", "span", "label"}

\* values of the type attribute: absent, those the tables list, and others
RoleTypes ==
    {Null, <<"button">>, <<"submit">>, <<"reset">>, <<"checkbox">>, <<"radio">>,
     <<"number">>, <<"range">>, <<"text">>, <<"email">>, <<"color">>, <<"hidden">>}

\* values of the role attribute: absent, or a role no table yields
RoleAttributes == {Null, <<"switch">>}

\* the document whose body holds the given element, followed by plain divisions
OneElement(e) ==
    Tree([n \in Below |-> Body], [n \in Below |-> IF n = 2 THEN e ELSE Div])

RoleTrees ==
    {OneElement([Plain(tag) EXCEPT !.type = type, !.role = explicitRole]) :
        tag \in RoleTags, type \in RoleTypes, explicitRole \in RoleAttributes}

\* no function has been called on the document yet
NothingCalled == ProbeIdle /\ phase = "start"

\* getImplicitRole(element) of the loaded content script
ApplyRole(element) ==
    /\ NothingCalled
    /\ probe' = [fn |-> "getImplicitRole", on |-> element, arg |-> Null, within |-> NoNode,
                 out |-> IF variant = "rec" THEN getImplicitRole(element)
                         ELSE getImplicitRoleFull(element)]
    /\ UNCHANGED <<dom, variant, synthVars, pickVars>>

\* the role function as the specification tabulates it
ReferenceTagRole(tag) ==
    CASE tag \in {"a", "area"} -> "link"
      [] tag \in {"button", "summary"} -> "button"
      [] tag \in {"h1", "h2", "h3", "h4", "h5", "h6"} -> "heading"
      [] tag = "img" -> "img"
      [] tag = "textarea" -> "textbox"
      [] tag = "select" -> "combobox"
      [] tag = "li" -> "listitem"
      [] tag \in {"ul", "ol"} -> "list"
      [] tag = "nav" -> "navigation"
      [] tag = "form" -> "form"
      [] tag = "dialog" -> "dialog"
      [] tag = "table" -> "table"
      [] tag = "tr" -> "row"
      [] tag = "td" -> "cell"
      [] tag = "th" -> "columnheader"
      [] tag \in {"thead", "tbody", "tfoot"} -> "rowgroup"
      [] tag \in {"fieldset", "optgroup", "details"} -> "group"
      [] tag = "option" -> "option"
      [] tag \in {"progress", "meter"} -> "progressbar"
      [] tag = "article" -> "article"
      [] tag = "aside" -> "complementary"
      [] tag = "footer" -> "contentinfo"
      [] tag = "header" -> "banner"
      [] tag = "main" -> "main"
      [] tag = "section" -> "region"
      [] OTHER -> ""

ReferenceTypeRole(type) ==
    CASE type \in {<<"button">>, <<"submit">>, <<"reset">>} -> "button"
      [] type = <<"checkbox">> -> "checkbox"
      [] type = <<"radio">> -> "radio"
      [] type = <<"number">> -> "spinbutton"
      [] type = <<"range">> -> "slider"
      [] OTHER -> "textbox"

ReferenceRole(e) ==
    IF Truthy(e.role) THEN e.role
    ELSE IF ReferenceTagRole(e.tag) # "" THEN <<ReferenceTagRole(e.tag)>>
    ELSE IF e.tag = "input" THEN <<ReferenceTypeRole(e.type)>>
    ELSE Null

\* getImplicitRole has been called on an element
RoleApplied == probe.fn = "getImplicitRole"

\* C22: for every combination of tag, type attribute and role attribute,
\* getImplicitRole returns what the reference function returns: the role attribute
\* when present, otherwise the entry of the tag table, otherwise for an input the
\* entry of the type table with textbox as its default, otherwise null
C22_RoleMatchesReference ==
    RoleApplied => probe.out = ReferenceRole(dom[probe.on])

\* the same of the recursive content script alone
C22_RecursiveRole ==
    (RoleApplied /\ variant = "rec") => probe.out = ReferenceRole(dom[probe.on])

---------------------------------------------------------------------------
(* Documents for the accessible name *)

\* the element whose name is computed: a division with some text, an image with or
\* without alt, a submit input and a text input with or without a value
NamedKinds ==
    {[Plain("div") EXCEPT !.text = text] : text \in {<<>>, <<"t">>, <<"<80>">>, <<"<120>">>}}
    \cup {Plain("img"), [Plain("img") EXCEPT !.alt = <<"a">>],
          [Plain("input") EXCEPT !.type = <<"submit">>],
          [Plain("input") EXCEPT !.type = <<"submit">>, !.value = <<"v">>],
          [Plain("input") EXCEPT !.type = <<"text">>, !.value = <<"v">>]}

\* the element that follows it: a label for the id "i", with or without text, or a division
LabelKinds ==
    {Div, [Plain("label") EXCEPT !.for = <<"i">>],
     [Plain("label") EXCEPT !.for = <<"i">>, !.text = <<"x">>]}

\* the last element: the division with the id "k", with or without text
ReferencedKinds == {[Plain("div") EXCEPT !.id = <<"k">>, !.text = text] : text \in {<<>>, <<"y">>}}

NamedElements ==
    {[e EXCEPT !.ariaLabel = ariaLabel, !.id = id, !.labelledby = labelledby,
               !.title = title] :
        e \in NamedKinds, ariaLabel \in {Null, <<" ">>, <<"l">>}, id \in {Null, <<"i">>},
        labelledby \in {Null, <<"k">>}, title \in {Null, <<"h">>, <<"<80>">>}}

NameTrees ==
    {Tree([n \in Below |-> Body],
          [n \in Below |-> IF n = 2 THEN e ELSE IF n = 3 THEN label ELSE referenced]) :
        e \in NamedElements, label \in LabelKinds, referenced \in ReferencedKinds}

\* getAccessibleName(element) of the loaded content script
ApplyName(element) ==
    /\ NothingCalled
    /\ probe' = [fn |-> "getAccessibleName", on |-> element, arg |-> Null, within |-> NoNode,
                 out |-> nameV(element)]
    /\ UNCHANGED <<dom, variant, synthVars, pickVars>>

\* the cap on the length of a name source in the loaded content script
capV == IF variant = "rec" THEN NameCap ELSE NameCapFull

\* an attribute's trimmed value, '' when the attribute is absent
trimmedAttr(a) == IF a = Null THEN <<>> ELSE trim(a)

\* a source that counts only under the cap
underCap(s) == IF StrLen(s) < capV THEN s ELSE <<>>

\* the rendered text of a visible element
visibleText(n) ==
    IF variant = "rec" THEN collapseWs(trim(innerText(n)))
    ELSE IF Visible(n) THEN trim(cleanTextOf(n)) ELSE <<>>

IsButtonLike(e) == e.tag = "input" /\ e.type \in {<<"submit">>, <<"button">>, <<"reset">>}

IsTextLike(e) ==
    \/ e.tag = "textarea"
    \/ e.tag = "input" /\ e.type \in {<<"text">>, <<"email">>, <<"password">>,
                                      <<"search">>, <<"tel">>, <<"url">>, <<"number">>}

\* the sources of the accessible name of an element, in the order of the claim
nameSources(n) ==
    << trimmedAttr(dom[n].ariaLabel),
       IF dom[n].labelledby = Null THEN <<>>
       ELSE trim(join(labelTexts(dom[n].labelledby), <<" ">>)),
       IF Truthy(dom[n].id) THEN labelText(labelFor(dom[n].id)) ELSE <<>>,
       IF IsButtonLike(dom[n]) \/ IsTextLike(dom[n]) THEN trimmedAttr(dom[n].value)
       ELSE <<>>,
       IF dom[n].tag = "img" THEN trimmedAttr(dom[n].alt) ELSE <<>>,
       underCap(visibleText(n)),
       underCap(trimmedAttr(dom[n].title)) >>

\* the first string of a sequence that is not empty, '' when there is none
firstNonEmpty(parts) == IF nonEmpty(parts) = <<>> THEN <<>> ELSE Head(nonEmpty(parts))

\* getAccessibleName has been called on an element
NameApplied == probe.fn = "getAccessibleName"

\* C23: getAccessibleName returns the first non-empty source in the order
\* aria-label, aria-labelledby, label-for text, value of a button-like or text-like
\* control, alt of an image, visible text under the cap, title under the cap; a
\* source that is present and empty after trimming does not stop the search
C23_FirstNonEmptySource ==
    NameApplied => probe.out = firstNonEmpty(nameSources(probe.on))

\* the empty string is returned only when every source is absent or empty
C23_EmptyOnlyWhenAllEmpty ==
    (NameApplied /\ probe.out = <<>>) => firstNonEmpty(nameSources(probe.on)) = <<>>

\* the same where every source that is present yields some text under the cap, the
\* element has no aria-labelledby and no text-like value
C23_OnPlainSources ==
    (/\ NameApplied
     /\ dom[probe.on].ariaLabel # <<" ">>
     /\ dom[probe.on].labelledby = Null
     /\ ~IsTextLike(dom[probe.on])
     /\ StrLen(trimmedAttr(dom[probe.on].title)) < NameCapFull
     /\ Truthy(dom[probe.on].id) /\ labelFor(dom[probe.on].id) # NoNode
            => labelText(labelFor(dom[probe.on].id)) # <<>>)
        => probe.out = firstNonEmpty(nameSources(probe.on))

---------------------------------------------------------------------------
(* Documents for the uniqueness checks *)

\* <button hidden>a</button>: not rendered
BtnAHidden == [BtnA EXCEPT !.hidden = TRUE, !.offsetParent = FALSE, !.displayed = FALSE]

\* <script role="button">
ScriptBtn == [Plain("script") EXCEPT !.role = <<"button">>, !.displayed = FALSE,
                                     !.offsetParent = FALSE]

UniqueProfiles == {Div, DivT, BtnA, BtnAFixed, BtnAHidden, ScriptBtn}

\* the elements side by side, or the last two inside the first
UniqueShapes == {[n \in Below |-> Body], [n \in Below |-> IF n = 2 THEN Body ELSE 2]}

UniqueTrees == {Tree(par, prof) : par \in UniqueShapes, prof \in [Below -> UniqueProfiles]}

\* the candidates the synthesizers hand to their uniqueness check
Candidates ==
    {[method |-> "getByRole", value |-> <<"button">>, o |-> NoOpts],
     [method |-> "getByRole", value |-> <<"button">>, o |-> NameExact(<<"a">>)],
     [method |-> "getByText", value |-> <<"a">>, o |-> ExactOnly],
     [method |-> "getByTestId", value |-> <<"t">>, o |-> NoOpts]}

\* the uniqueness check of the loaded content script, called as its synthesizer
\* calls it: isLocatorUniqueInScope('getByRole', role, element, scope) in the
\* recursive script, validatePlaywrightLocatorUniqueness(element, method, value,
\* options) over the document in the full-ladder script
ApplyUnique(targetElement, c, scope) ==
    /\ NothingCalled
    /\ IF variant = "rec" THEN c.method = "getByRole" /\ c.o = NoOpts
       ELSE scope = NoNode
    /\ probe' = [fn |-> "unique", on |-> targetElement, arg |-> c, within |-> scope,
                 out |-> IF variant = "rec"
                         THEN isLocatorUniqueInScope(c.method, c.value, targetElement, scope)
                         ELSE validatePlaywrightLocatorUniqueness(targetElement, c.method,
                                                                  c.value, c.o)]
    /\ UNCHANGED <<dom, variant, synthVars, pickVars>>

\* the nodes of a scope: the document, or what lies below an element
scopeNodes(scope) == IF scope = NoNode THEN AllElements ELSE Descendants(scope)

\* the visible nodes of the scope, script and style left out, that satisfy the
\* predicate of the candidate
candidateSatisfiers(c, scope) ==
    {el \in scopeNodes(scope) :
        /\ Visible(el)
        /\ dom[el].tag \notin {"script", "style"}
        /\ CASE c.method = "getByRole" ->
                  /\ roleV(el) = c.value
                  /\ c.o.name # Null => textMatches(nameV(el), c.o.name, c.o.exact)
             [] c.method = "getByText" ->
                  nameV(el) # <<>> /\ textMatches(nameV(el), c.value, c.o.exact)
             [] OTHER -> testIdOf(el) = c.value}

\* a uniqueness check has been called
UniqueApplied == probe.fn = "unique"

\* C24: the uniqueness check returns true if and only if the visible nodes of the
\* scope, script and style left out, that satisfy the candidate's predicate are
\* the target and no other node; otherwise it returns false
C24_UniqueIffOnlyTarget ==
    UniqueApplied => (probe.out <=> candidateSatisfiers(probe.arg, probe.within) = {probe.on})

\* the same of the full-ladder content script alone
C24_FullLadder ==
    (UniqueApplied /\ variant = "full")
        => (probe.out <=> candidateSatisfiers(probe.arg, probe.within) = {probe.on})

---------------------------------------------------------------------------
(* Documents for the ladder of the synthesizer *)

\* <div>a</div>: a name and no role
DivA == [Plain("div") EXCEPT !.text = <<"a">>]

\* elements that carry the role button or link through another tag
DivRoleButtonL == [Plain("div") EXCEPT !.role = <<"button">>, !.ariaLabel = <<"l">>]
SpanRoleLinkA == [Plain("span") EXCEPT !.role = <<"link">>, !.text = <<"a">>]
SummaryA == [Plain("summary") EXCEPT !.text = <<"a">>]
SubmitL == [Plain("input") EXCEPT !.type = <<"submit">>, !.ariaLabel = <<"l">>]
LinkA == [Plain("a") EXCEPT !.text = <<"a">>]

LadderProfiles == {Div, DivA, DivRoleButtonL, SpanRoleLinkA, SummaryA, SubmitL, LinkA, BtnA}

LadderTrees == {Tree(par, prof) : par \in UniqueShapes, prof \in [Below -> LadderProfiles]}

\* generateBestLocator(element, framework) called on its own
SynthesizeAlone(element, fw) ==
    /\ ProbeIdle
    /\ Synthesize(element, fw)

\* the role of the target is button or link
ButtonOrLink(n) == roleV(n) \in {<<"button">>, <<"link">>}

HasLabelSegment(text) == \E i \in 1..Len(kindsOf(text)) : kindsOf(text)[i] = "Label"

\* C25: synthesis never returns an expression with a Label segment for a node
\* whose role, explicit or implicit, is button or link, whatever its tag
C25_NoLabelForButtonOrLink ==
    (Synthesized /\ ~result.thr /\ ButtonOrLink(target)) => ~HasLabelSegment(result.text)

\* a node with the role button or link and a tag other than button and a, which
\* its accessible name as a label would identify, has been synthesized in the
\* full-ladder script
C25_Witness ==
    /\ Synthesized
    /\ variant = "full"
    /\ ~result.thr
    /\ ButtonOrLink(target)
    /\ dom[target].tag \notin {"button", "a"}
    /\ pickedAlone("getByLabel", nameV(target), ExactOnly)
    /\ ~HasLabelSegment(result.text)

---------------------------------------------------------------------------
(* The calls of the recursive synthesizer *)

\* no tier of the recursive ladder returns: the call reaches its chaining loop
reachesLoopWith(element, testId, role, accName) ==
    /\ ~Truthy(testId)
    /\ ~Truthy(accName)
    /\ ~Truthy(dom[element].placeholder)
    /\ ~Truthy(dom[element].alt)
    /\ ~(Truthy(role) /\ isLocatorUniqueInScope("getByRole", role, element, NoNode))

reachesLoop(element) ==
    reachesLoopWith(element, testIdOf(element), getImplicitRole(element),
                    getAccessibleName(element))

\* the relative selector does not pick one element below the ancestor
selectorMisses(parentElement, relativeCSS) ==
    /\ ~relativeCSS.thr
    /\ ~querySelectorAll(parentElement, relativeCSS.text).thr
    /\ Cardinality(querySelectorAll(parentElement, relativeCSS.text).nodes) # 1

\* the loop goes on to the next ancestor: the ancestor's locator was returned and
\* is not stable, or neither child locator holds below it
loopGoesOn(element, parentElement, role, parentLocator) ==
    /\ ~parentLocator.thr
    /\ \/ ~isStableParentLocator(parentLocator.text)
       \/ /\ ~(Truthy(role) /\ isLocatorUniqueInScope("getByRole", role, element,
                                                      parentElement))
          /\ selectorMisses(parentElement, getRelativeCSS(element, parentElement))

\* a loop that never moves on from the first ancestor
RECURSIVE examinedStuck(_, _, _, _)
examinedStuck(element, fw, parentElement, i) ==
    IF i < ChainDepth /\ parentElement # NoNode /\ dom[parentElement].tag # "body"
    THEN <<parentElement>>
         \o (IF loopGoesOn(element, parentElement, getImplicitRole(element),
                           generateBestLocator(parentElement, fw))
             THEN examinedStuck(element, fw, parentElement, i + 1)
             ELSE <<>>)
    ELSE <<>>

\* the ancestors the chaining loop of one call hands to generateBestLocator, in
\* order, from the ancestor parentElement on
RECURSIVE examinedFrom(_, _, _, _)
examinedFrom(element, fw, parentElement, i) ==
    IF i < ChainDepth /\ parentElement # NoNode /\ dom[parentElement].tag # "body"
    THEN <<parentElement>>
         \o (IF loopGoesOn(element, parentElement, getImplicitRole(element),
                           generateBestLocator(parentElement, fw))
             THEN examinedFrom(element, fw, Parent(parentElement), i + 1)
             ELSE <<>>)
    ELSE <<>>

\* the elements one call of generateBestLocator calls itself on
examined(element, fw) ==
    IF reachesLoop(element) THEN examinedFrom(element, fw, Parent(element), 0) ELSE <<>>

\* the number of calls of generateBestLocator one call on the element makes, itself
\* included
RECURSIVE synthCalls(_, _)
RECURSIVE sumCalls(_, _)
sumCalls(elements, fw) ==
    IF elements = <<>> THEN 0
    ELSE synthCalls(Head(elements), fw) + sumCalls(Tail(elements), fw)
synthCalls(element, fw) == 1 + sumCalls(examined(element, fw), fw)

RECURSIVE TwoTo(_)
TwoTo(k) == IF k = 0 THEN 1 ELSE 2 * TwoTo(k - 1)

---------------------------------------------------------------------------
(* Documents for the relative selector *)

SpanFoo == [Plain("span") EXCEPT !.classList = << <<"f", "o", "o">> >>]

\* a class too short to count as stable
DivXy == [Plain("div") EXCEPT !.classList = << <<"x", "y">> >>]

CssProfiles == {Div, DivFoo, DivXy, SpanFoo}

CssTrees == {Tree(par, prof) : par \in Shapes, prof \in [Below -> CssProfiles]}

\* getRelativeCSS(element, parent) with an ancestor of the element, as the chaining
\* loop and the CSS fallback of the recursive synthesizer call it
ApplyRelativeCSS(element, parent) ==
    /\ NothingCalled
    /\ variant = "rec"
    /\ parent \in Ancestors(element)
    /\ probe' = [fn |-> "getRelativeCSS", on |-> element, arg |-> Null, within |-> parent,
                 out |-> getRelativeCSS(element, parent)]
    /\ UNCHANGED <<dom, variant, synthVars, pickVars>>

\* element.matches(selector) with the standard meaning of the selector
matchesText(n, selector) ==
    /\ ~querySelectorAll(NoNode, selector).thr
    /\ n \in querySelectorAll(NoNode, selector).nodes

\* getRelativeCSS has been called
RelativeApplied == probe.fn = "getRelativeCSS"

\* the selector built is matched by the element and by no other child of the parent
selectsAmongChildren(element, parent, selector) ==
    /\ matchesText(element, selector)
    /\ \A c \in Nodes : (dom[c].parent = parent /\ c # element) => ~matchesText(c, selector)

\* C29: the selector getRelativeCSS builds for an element and the parent it is
\* made relative to, read with the standard meaning of :nth-of-type (the position
\* among the siblings of the same tag), is matched by the element and by no
\* other child of that parent
C29_RelativeSelectorPicksElement ==
    RelativeApplied
    => /\ ~probe.out.thr
       /\ selectsAmongChildren(probe.on, probe.within, probe.out.text)

\* the same for an element made relative to its own parent
C29_OwnParent ==
    (RelativeApplied /\ probe.within = Parent(probe.on))
    => /\ ~probe.out.thr
       /\ selectsAmongChildren(probe.on, probe.within, probe.out.text)

\* the same where no :nth-of-type suffix is written
C29_WithoutSuffix ==
    (RelativeApplied /\ probe.within = Parent(probe.on) /\ ~probe.out.thr
        /\ ~includes(probe.out.text, <<":nth-of-type">>))
    => selectsAmongChildren(probe.on, probe.within, probe.out.text)

---------------------------------------------------------------------------
(* Documents for the anchor test of the chaining loop *)

\* <div data-testid="WARNING">
DivTWarning == [Plain("div") EXCEPT !.testid = <<"WARNING">>]

\* <button>locator(</button>
BtnLocatorName == [Plain("button") EXCEPT !.text = <<"locator", "(">>]

AnchorProfiles == {Div, DivT, DivTWarning, BtnA, BtnLocatorName}

AnchorTrees == {Tree(par, prof) : par \in Shapes, prof \in [Below -> AnchorProfiles]}

\* the test of the chaining loop on the locator synthesized for an ancestor:
\* parentLocator && !parentLocator.includes('locator(') && !parentLocator.includes('WARNING')
ApplyAnchorTest(parentElement, fw) ==
    /\ NothingCalled
    /\ variant = "rec"
    /\ Descendants(parentElement) # {}
    /\ ~generateBestLocator(parentElement, fw).thr
    /\ probe' = [fn |-> "anchor", on |-> parentElement, arg |-> fw, within |-> NoNode,
                 out |-> isStableParentLocator(generateBestLocator(parentElement, fw).text)]
    /\ UNCHANGED <<dom, variant, synthVars, pickVars>>

\* the locator of the element is a semantic one without annotation: a tier of the
\* ladder returned it, or the loop chained a role below an accepted ancestor;
\* else it is a structural one (a relative selector chained or alone, the latter
\* with the warning)
semanticResult(element, r) ==
    \/ ~reachesLoop(element)
    \/ r.anc # NoNode /\ r.seg.kind = "getByRole"

\* the anchor test has been applied to the locator of an ancestor
AnchorApplied == probe.fn = "anchor"

\* C30: the locator of an ancestor is accepted as the chaining anchor exactly
\* when it is neither structural nor warning-annotated, whatever the characters
\* of its test id or accessible name
C30_AnchorByKindOnly ==
    AnchorApplied
    => (probe.out <=> semanticResult(probe.on, generateBestLocator(probe.on, probe.arg)))

\* the same for ancestors whose values hold neither WARNING nor locator(
C30_PlainValues ==
    (/\ AnchorApplied
     /\ \A n \in Nodes : dom[n].testid # <<"WARNING">> /\ dom[n].text # <<"locator", "(">>)
    => (probe.out <=> semanticResult(probe.on, generateBestLocator(probe.on, probe.arg)))

FnTrees ==
    RoleTrees \cup NameTrees \cup UniqueTrees \cup LadderTrees \cup CssTrees
    \cup AnchorTrees

InitFn ==
    /\ dom \in FnTrees
    /\ variant \in Variants
    /\ SynthIdle
    /\ PickIdle
    /\ ProbeIdle

NextFn ==
    \/ \E element \in Nodes : ApplyRole(element)
    \/ \E element \in Nodes : ApplyName(element)
    \/ \E element \in Nodes, c \in Candidates, scope \in {NoNode} \cup Nodes :
            ApplyUnique(element, c, scope)
    \/ \E element \in Nodes, fw \in Frameworks : SynthesizeAlone(element, fw)
    \/ \E element \in Nodes, parent \in Nodes : ApplyRelativeCSS(element, parent)
    \/ \E parentElement \in Nodes, fw \in Frameworks : ApplyAnchorTest(parentElement, fw)

SpecFn == InitFn /\ [][NextFn]_vars

=============================================================================
